---- MODULE Spec2Model ----
(***************************************************************************)
(* A model of the stateful core of the Keysight VNA SCPI API               *)
(* (src/code/py_vna.py, class pyvisaVNA): the error-queue drain, the       *)
(* guided calibration run, the measurement / trace index, the measurement  *)
(* catalog, block data transfer and its decoding, channel configuration,   *)
(* and the composition of cal sets.                                        *)
(*                                                                         *)
(* Text exchanged with the instrument is modelled as a sequence of         *)
(* one-character strings, so that strip / replace / split / lower / int    *)
(* are computed the way the Python code computes them.                     *)
(***************************************************************************)
EXTENDS Integers, Sequences, FiniteSets, TLC

VARIABLES
    pc,         \* control position of the session's current call
    log,        \* commands sent to the instrument and console events, in order
    errq,       \* the instrument's error queue (oldest first)
    raised,     \* exception that ended the last call: [kind, payload]
    timeout,    \* self.inst.timeout
    step,       \* run_cal: loop variable s
    numSteps,   \* run_cal: numSteps
    promptUser, \* run_cal: argument promptUser
    instrSteps, \* instrument: number of steps of the guided calibration
    keepLog,    \* whether log records the run (an unrecorded run has no bound)
    windows,    \* instrument: ids of the windows that are on
    winTraces,  \* instrument: window id -> set of occupied trace slots
    meas,       \* instrument: channel -> sequence of [name, num] or [name, num, param]
    selected,   \* instrument: channel -> name of the selected measurement, or NoName
    call,       \* arguments and locals of the current / last index call
    ret,        \* value returned by the last call
    inst        \* instrument: transfer format, cal sets, channels, ECal data

vars == <<pc, log, errq, raised, timeout, step, numSteps, promptUser, instrSteps,
          keepLog, windows, winTraces, meas, selected, call, ret, inst>>

calVars == <<step, numSteps, promptUser, instrSteps, keepLog>>
idxVars == <<windows, winTraces, meas, selected, call, ret, inst>>

----------------------------------------------------------------------------
(* Bounds of the model *)

MaxQueue == 3
MaxSteps == 2
MaxRejects == 2
MaxLinkFails == 1
MaxSlot == 2

----------------------------------------------------------------------------
(* Text helpers: Python's str methods on sequences of characters *)

Whitespace == {" ", "\n", "\t", "\r"}

RECURSIVE LStripChars(_, _)
LStripChars(s, cs) ==
    IF s # <<>> /\ Head(s) \in cs THEN LStripChars(Tail(s), cs) ELSE s

RECURSIVE RStripChars(_, _)
RStripChars(s, cs) ==
    IF s # <<>> /\ s[Len(s)] \in cs
    THEN RStripChars(SubSeq(s, 1, Len(s) - 1), cs)
    ELSE s

\* str.strip(chars)
StripChars(s, cs) == RStripChars(LStripChars(s, cs), cs)

\* str.strip()
Strip(s) == StripChars(s, Whitespace)

\* str.replace(c, '')
RemoveChar(s, c) == SelectSeq(s, LAMBDA x : x # c)

\* str.split(sep) for a one-character separator: a sequence of tokens
RECURSIVE SplitFrom(_, _, _, _)
SplitFrom(s, sep, i, cur) ==
    IF i > Len(s) THEN <<cur>>
    ELSE IF s[i] = sep THEN <<cur>> \o SplitFrom(s, sep, i + 1, <<>>)
    ELSE SplitFrom(s, sep, i + 1, Append(cur, s[i]))

Split(s, sep) == SplitFrom(s, sep, 1, <<>>)

\* x in list
InList(x, l) == \E i \in 1..Len(l) : l[i] = x

\* one character of str.lower(): an upper-case letter becomes its lower-case
\* letter, any other character stays
LowerChar(c) ==
    LET upper == <<"A", "B", "C", "D", "E", "F", "G", "H", "I", "J", "K", "L", "M",
                   "N", "O", "P", "Q", "R", "S", "T", "U", "V", "W", "X", "Y", "Z">>
        lower == <<"a", "b", "c", "d", "e", "f", "g", "h", "i", "j", "k", "l", "m",
                   "n", "o", "p", "q", "r", "s", "t", "u", "v", "w", "x", "y", "z">>
    IN  IF \E i \in 1..26 : upper[i] = c
        THEN lower[CHOOSE i \in 1..26 : upper[i] = c]
        ELSE c

\* str.lower()
Lower(s) == [i \in 1..Len(s) |-> LowerChar(s[i])]

\* pat in s
Contains(s, pat) ==
    \E i \in 1..(Len(s) - Len(pat) + 1) : SubSeq(s, i, i + Len(pat) - 1) = pat

Digits == <<"0", "1", "2", "3", "4", "5", "6", "7", "8", "9">>

\* str(n) for n >= 0
RECURSIVE Dec(_)
Dec(n) == IF n < 10 THEN <<Digits[n + 1]>> ELSE Dec(n \div 10) \o <<Digits[(n % 10) + 1]>>

DigitVal(c) == CHOOSE d \in 0..9 : Digits[d + 1] = c

IsDigit(c) == \E d \in 0..9 : Digits[d + 1] = c

RECURSIVE DigitsVal(_, _)
DigitsVal(s, acc) ==
    IF s = <<>> THEN acc ELSE DigitsVal(Tail(s), acc * 10 + DigitVal(Head(s)))

\* int(s): surrounding whitespace and one leading sign are accepted; anything
\* else is a ValueError
ParseInt(s) ==
    LET t == Strip(s)
        neg == t # <<>> /\ Head(t) = "-"
        u == IF t # <<>> /\ Head(t) \in {"+", "-"} THEN Tail(t) ELSE t
    IN  IF u # <<>> /\ \A i \in 1..Len(u) : IsDigit(u[i])
        THEN [ok |-> TRUE, val |-> IF neg THEN 0 - DigitsVal(u, 0) ELSE DigitsVal(u, 0)]
        ELSE [ok |-> FALSE, val |-> 0]

\* ','.join(items)
RECURSIVE Join(_)
Join(items) ==
    IF items = <<>> THEN <<>>
    ELSE IF Len(items) = 1 THEN items[1]
    ELSE items[1] \o <<",">> \o Join(Tail(items))

\* the elements of a finite set of naturals, ascending
RECURSIVE Sorted(_)
Sorted(S) ==
    IF S = {} THEN <<>>
    ELSE LET m == CHOOSE x \in S : \A y \in S : x <= y
         IN  <<m>> \o Sorted(S \ {m})

\* a catalog reply: the items, comma separated, in quotes, newline terminated
Quoted(body) == <<"\"">> \o body \o <<"\"", "\n">>

----------------------------------------------------------------------------
(* Log entries and exceptions *)

Ev(e, n) == [ev |-> e, n |-> n]

NoException == [kind |-> "none", payload |-> <<>>]
Raise(k, p) == [kind |-> k, payload |-> p]

Count(l, P(_)) == Len(SelectSeq(l, P))

----------------------------------------------------------------------------
(* The instrument's error queue and err_check *)

\* reply to 'syst:err?' when the queue is empty
NoErrorResponse ==
    <<"+", "0", ",", "\"", "N", "o", " ", "e", "r", "r", "o", "r", "\"", "\n">>

\* the literal err_check compares with
NoErrorText == <<"0", ",", "\"", "N", "o", " ", "e", "r", "r", "o", "r", "\"">>

\* error records the instrument can queue: <sign><code>,"<text>"
ErrHeader == <<"-", "1", "1", "3", ",", "\"", "h", "d", "r", "\"">>
ErrRange == <<"-", "2", "2", "2", ",", "\"", "o", "u", "t", "-", "o", "f", "\"">>
ErrStandard == <<"+", "5", "8", "2", ",", "\"", "s", "t", "d", "\"">>

Errors == {ErrHeader, ErrRange, ErrStandard}

\* the instrument answers 'syst:err?' with the oldest record and removes it
SystErrResponse(q) == IF q = <<>> THEN NoErrorResponse ELSE Head(q) \o <<"\n">>
SystErrQueueAfter(q) == IF q = <<>> THEN q ELSE Tail(q)

\* self.inst.query('syst:err?').strip().replace('+', '').replace('-', '')
ErrTemp(q) == RemoveChar(RemoveChar(Strip(SystErrResponse(q)), "+"), "-")

\* a drain that stops after the first record
ErrLoopReadsOne(q, err, n) ==
    [err |-> IF ErrTemp(q) # NoErrorText THEN Append(err, ErrTemp(q)) ELSE err,
     q |-> SystErrQueueAfter(q), queries |-> n + 1]

\* the loop of err_check: err is the list built so far, n the queries made so far
RECURSIVE ErrLoop(_, _, _)
ErrLoop(q, err, n) ==
    IF ErrTemp(q) # NoErrorText
    THEN ErrLoop(SystErrQueueAfter(q), Append(err, ErrTemp(q)), n + 1)
    ELSE [err |-> err, q |-> SystErrQueueAfter(q), queries |-> n + 1]

\* err_check(): the list of errors read, the queue left, the queries made
ErrCheck(q) == ErrLoop(q, <<>>, 0)

ErrCheckRaised(r) == IF r.err # <<>> THEN Raise("Exception", r.err) ELSE NoException

\* n entries 'syst:err?'
ErrQueries(n) == [i \in 1..n |-> Ev("syst:err?", 0)]

OriginalTimeout == 10000

\* the session before its first call
InitSession ==
    /\ pc = "idle"
    /\ log = <<>>
    /\ raised = NoException
    /\ timeout = OriginalTimeout
    /\ ret = 0

\* the rest of the instrument's state: the transfer format of block data (byte
\* order and number format), the names of the stored cal sets, the channels
\* created beside the measurement channels, and the characterisation data of
\* the ECal module (one path / state block, its point count and its path)
NoEcal == [raw |-> <<>>, numPoints |-> 1, path |-> "a"]
InstIdle ==
    [border |-> "norm", format |-> "ascii", csets |-> {}, chans |-> {},
     ecal |-> NoEcal]

\* the values every specification leaves alone unless it says otherwise
InitCommon ==
    /\ InitSession
    /\ inst = InstIdle

InitCalIdle ==
    /\ step = 0
    /\ numSteps = 0
    /\ promptUser = 0
    /\ instrSteps = 0
    /\ keepLog = TRUE

InitIdxIdle ==
    /\ windows = {}
    /\ winTraces = [w \in {} |-> {}]
    /\ meas = [c \in {} |-> <<>>]
    /\ selected = [c \in {} |-> <<>>]
    /\ call = [op |-> "none"]

----------------------------------------------------------------------------
(* Specification SpecErr: err_check on any error queue *)

\* an earlier command leaves an error record in the queue
InstrumentQueuesError ==
    /\ Len(errq) < MaxQueue
    /\ \E e \in Errors : errq' = Append(errq, e)
    /\ pc' = "idle"
    /\ log' = <<>>
    /\ raised' = NoException
    /\ UNCHANGED <<timeout, calVars, idxVars>>

\* a call of err_check(); call records the queue it found
ErrCheckCall ==
    /\ pc = "idle"
    /\ LET r == ErrCheck(errq)
       IN  /\ errq' = r.q
           /\ log' = ErrQueries(r.queries)
           /\ raised' = ErrCheckRaised(r)
           /\ call' = [op |-> "err_check", found |-> errq]
    /\ pc' = "done"
    /\ UNCHANGED <<timeout, calVars, windows, winTraces, meas, selected, ret, inst>>

InitErr ==
    /\ InitCommon
    /\ InitCalIdle
    /\ InitIdxIdle
    /\ errq = <<>>

NextErr == InstrumentQueuesError \/ ErrCheckCall

SpecErr == InitErr /\ [][NextErr]_vars

\* C6: when err_check ends, the error queue is empty; a queue of n >= 1 records
\* was read completely (n + 1 queries) and gave one exception whose payload
\* lists the n records in queue order (each as err_check read it, without its
\* '+' and '-' characters); an empty queue raised nothing.
C6_ErrCheckDrainsAll ==
    (pc = "done" /\ call.op = "err_check") =>
        LET found == call.found
            n == Len(found)
        IN  /\ errq = <<>>
            /\ Len(log) = n + 1
            /\ n = 0 => raised = NoException
            /\ n >= 1 =>
                /\ raised.kind = "Exception"
                /\ Len(raised.payload) = n
                /\ \A i \in 1..n :
                      raised.payload[i] = RemoveChar(RemoveChar(found[i], "+"), "-")

C6_Witness ==
    /\ pc = "done"
    /\ call.op = "err_check"
    /\ call.found = <<ErrRange, ErrHeader, ErrStandard>>
    /\ raised.kind = "Exception"
    /\ Len(raised.payload) = 3
    /\ errq = <<>>

----------------------------------------------------------------------------
(* The guided calibration run: run_cal and measure_cal_standard *)

\* run_cal's default timeoutMs, handed to measure_cal_standard
TimeoutMs == 60000

\* the instrument's reply to a numeric query: sign, digits, newline
NumericResponse(n) == <<"+">> \o Dec(n) \o <<"\n">>

\* error records a command can add to the queue while it executes
InitiateErrs == {<<>>, <<ErrHeader>>}
AcquireErrs == {<<>>, <<ErrStandard>>, <<ErrStandard, ErrRange>>}

IsCaughtInstr(e) == e.ev = "caught_instr"
IsCaughtLink(e) == e.ev = "caught_link"
IsSave(e) == e.ev = "save"

\* wait_for_opc(tempTimeout): the session timeout afterwards and the exception;
\* linkOk is whether the '*opc?' query got its reply within the timeout
\* (during is the session timeout while the query is outstanding)
WaitForOpc(tmo, tempTimeout, linkOk) ==
    IF tempTimeout # 0
    THEN [timeout |-> IF linkOk THEN tmo ELSE tempTimeout,
          during |-> tempTimeout,
          raised |-> IF linkOk THEN NoException ELSE Raise("VisaIOError", <<>>)]
    ELSE [timeout |-> tmo,
          during |-> tmo,
          raised |-> IF linkOk THEN NoException ELSE Raise("VisaIOError", <<>>)]

\* an err_check placed before the barrier
MeasureCalStandardDrainsFirst(s, q, tmo, linkOk) ==
    LET w == WaitForOpc(tmo, TimeoutMs, linkOk)
        r == ErrCheck(q)
    IN  IF r.err # <<>>
        THEN [sent |-> <<Ev("acquire", s)>> \o ErrQueries(r.queries),
              q |-> r.q, timeout |-> tmo, barrier |-> tmo,
              raised |-> ErrCheckRaised(r)]
        ELSE [sent |-> <<Ev("acquire", s)>> \o ErrQueries(r.queries)
                           \o <<Ev("*opc?", 0)>>,
              q |-> r.q, timeout |-> w.timeout, barrier |-> w.during,
              raised |-> w.raised]

\* measure_cal_standard(s): q is the error queue once the acquire has executed
MeasureCalStandard(s, q, tmo, linkOk) ==
    LET w == WaitForOpc(tmo, TimeoutMs, linkOk)
        r == ErrCheck(q)
    IN  IF w.raised.kind # "none"
        THEN [sent |-> <<Ev("acquire", s), Ev("*opc?", 0)>>,
              q |-> q, timeout |-> w.timeout, barrier |-> w.during,
              raised |-> w.raised]
        ELSE [sent |-> <<Ev("acquire", s), Ev("*opc?", 0)>> \o ErrQueries(r.queries),
              q |-> r.q, timeout |-> w.timeout, barrier |-> w.during,
              raised |-> ErrCheckRaised(r)]

\* 'except Exception as e' of run_cal: the exceptions the retry loop catches
\* (every exception but the three that derive from BaseException only)
CaughtByRetryLoop(kind) ==
    kind \notin {"none", "KeyboardInterrupt", "SystemExit", "GeneratorExit"}

\* a retry loop that gives the step up and goes on
OnStepExceptionSkips(s, n) ==
    IF s < n THEN [pc |-> "describe", step |-> s + 1]
    ELSE [pc |-> "finalize", step |-> s]

\* the except branch: successFlag stays 0, input() is awaited, the same s again
OnStepException(s, n) == [pc |-> "retry_prompt", step |-> s]

\* a loop whose successFlag is never set: the accepted step is measured again
OnStepSuccessRepeats(s, n) == [pc |-> "measure", step |-> s]

\* a run that returns after its last step without saving
OnStepSuccessReturns(s, n) ==
    IF s < n THEN [pc |-> "describe", step |-> s + 1]
    ELSE [pc |-> "returned", step |-> s]

\* a loop that leaves after its first step
OnStepSuccessLeaves(s, n) == [pc |-> "finalize", step |-> s]

\* successFlag = 1: the while loop ends and the for loop takes the next s
OnStepSuccess(s, n) ==
    IF s < n THEN [pc |-> "describe", step |-> s + 1]
    ELSE [pc |-> "finalize", step |-> s]

\* the for loop's entry: range(1, numSteps+1) may be empty
EnterSteps(n) ==
    IF n >= 1 THEN [pc |-> "describe", step |-> 1]
    ELSE [pc |-> "finalize", step |-> 0]

NumLinkFails == Count(log, IsCaughtLink)
NumRejects == Count(log, IsCaughtInstr)

\* the record of the run after its commands l: nothing when it is not kept
Kept(l) == IF keepLog THEN l ELSE <<>>

\* initiate is written, the number of steps is queried
RunCalStart ==
    /\ pc = "idle"
    /\ \E new \in InitiateErrs, linkOk \in BOOLEAN :
          LET n == ParseInt(NumericResponse(instrSteps))
          IN  /\ errq' = errq \o new
              /\ log' = Kept(<<Ev("initiate", 0), Ev("steps?", 0)>>)
              /\ IF ~linkOk
                 THEN /\ raised' = Raise("VisaIOError", <<>>)
                      /\ pc' = "raised"
                      /\ UNCHANGED <<step, numSteps>>
                 ELSE /\ raised' = NoException
                      /\ numSteps' = n.val
                      /\ pc' = EnterSteps(n.val).pc
                      /\ step' = EnterSteps(n.val).step
    /\ UNCHANGED <<timeout, promptUser, instrSteps, keepLog, idxVars>>

\* the description of step s is queried and printed; the query is outside the
\* try, so a reply that does not come within the timeout (linkOk is FALSE)
\* ends run_cal
RunCalDescribe ==
    /\ pc = "describe"
    /\ log' = Kept(Append(log, Ev("description?", step)))
    /\ \E linkOk \in BOOLEAN :
          IF ~linkOk
          THEN /\ raised' = Raise("VisaIOError", <<>>)
               /\ pc' = "raised"
          ELSE /\ raised' = raised
               /\ pc' = IF promptUser # 0 THEN "confirm" ELSE "measure"
    /\ UNCHANGED <<errq, timeout, calVars, idxVars>>

\* input('Press enter when connections have been made.') returns
OperatorConfirms ==
    /\ pc = "confirm"
    /\ log' = Kept(Append(log, Ev("input_connect", step)))
    /\ pc' = "measure"
    /\ UNCHANGED <<errq, raised, timeout, calVars, idxVars>>

\* one pass of the while loop: measure_cal_standard(s) and its outcome
RunCalMeasure ==
    /\ pc = "measure"
    /\ \E new \in AcquireErrs, linkOk \in BOOLEAN :
          /\ new # <<>> => NumRejects < MaxRejects
          /\ ~linkOk => NumLinkFails < MaxLinkFails
          /\ Len(MeasureCalStandard(step, errq \o new, timeout, linkOk).q) <= MaxQueue
          /\ LET m == MeasureCalStandard(step, errq \o new, timeout, linkOk)
                 caught == CaughtByRetryLoop(m.raised.kind)
                 nxt == IF m.raised.kind = "none" THEN OnStepSuccess(step, numSteps)
                        ELSE OnStepException(step, numSteps)
                 outcome == IF m.raised.kind = "none" THEN Ev("completed", step)
                            ELSE IF m.raised.kind = "VisaIOError"
                                 THEN Ev("caught_link", step)
                                 ELSE Ev("caught_instr", step)
             IN  /\ errq' = m.q
                 /\ timeout' = m.timeout
                 /\ call' = [op |-> "measure_cal_standard", step |-> step,
                             attempt |-> Count(log, LAMBDA e : e = Ev("acquire", step)) + 1,
                             found |-> errq, own |-> new, linkOk |-> linkOk,
                             before |-> timeout, barrier |-> m.barrier,
                             sent |-> m.sent, outcome |-> outcome.ev]
                 /\ IF m.raised.kind = "none" \/ caught
                    THEN /\ log' = Kept(log \o m.sent \o <<outcome>>)
                         /\ pc' = nxt.pc
                         /\ step' = nxt.step
                         /\ raised' = NoException
                    ELSE /\ log' = Kept(log \o m.sent)
                         /\ pc' = "raised"
                         /\ step' = step
                         /\ raised' = m.raised
    /\ UNCHANGED <<numSteps, promptUser, instrSteps, keepLog, windows, winTraces,
                   meas, selected, ret, inst>>

\* input('Cal standard not connected correctly. ...') returns
OperatorRetries ==
    /\ pc = "retry_prompt"
    /\ log' = Kept(Append(log, Ev("input_retry", step)))
    /\ pc' = "measure"
    /\ UNCHANGED <<errq, raised, timeout, calVars, idxVars>>

\* calSetName arguments (the first is run_cal's default)
CalSetNameArgs == {<<"m", "y", " ", "c", "a", "l">>, <<"c", "_", "1">>}

\* readings of datetime.now(tz): the wall clock at UTC-7, field by field
ClockReadings ==
    {[year |-> 2024, month |-> 1, day |-> 5, hour |-> 3, minute |-> 7, second |-> 9],
     [year |-> 2026, month |-> 10, day |-> 30, hour |-> 23, minute |-> 59, second |-> 0]}

\* a number printed without leading zeros
ZeroPadNone(n, width) == Dec(n)

\* a strftime field: n in decimal, zero-padded on the left to width
ZeroPad(n, width) ==
    LET d == Dec(n)
    IN  [i \in 1..(IF Len(d) < width THEN width - Len(d) ELSE 0) |-> "0"] \o d

\* rawTimestamp.strftime('%Y%m%d_%H-%M-%S')
Strftime(t) ==
    ZeroPad(t.year, 4) \o ZeroPad(t.month, 2) \o ZeroPad(t.day, 2) \o <<"_">>
    \o ZeroPad(t.hour, 2) \o <<"-">> \o ZeroPad(t.minute, 2) \o <<"-">>
    \o ZeroPad(t.second, 2)

\* fullCalSetName
FullCalSetName(calSetName, calSetTimestampSuffix, t) ==
    IF calSetTimestampSuffix # 0
    THEN calSetName \o <<"_">> \o Strftime(t)
    ELSE calSetName

\* error records the save command can add to the queue
SaveErrs == {<<>>, <<ErrHeader>>}

\* the loop is over: the cal set is saved under fullCalSetName and run_cal
\* returns; nothing is read back after the save command
RunCalSave ==
    /\ pc = "finalize"
    /\ \E calSetName \in CalSetNameArgs, calSetTimestampSuffix \in {0, 1},
          t \in ClockReadings, new \in SaveErrs :
          /\ errq' = errq \o new
          /\ call' = [op |-> "run_cal", calSetName |-> calSetName,
                      calSetTimestampSuffix |-> calSetTimestampSuffix,
                      rawTimestamp |-> t,
                      saved |-> FullCalSetName(calSetName, calSetTimestampSuffix, t),
                      found |-> errq, own |-> new]
    /\ log' = Kept(Append(log, Ev("save", 0)))
    /\ pc' = "returned"
    /\ UNCHANGED <<raised, timeout, calVars, windows, winTraces, meas, selected,
                   ret, inst>>

\* before run_cal is called: any promptUser, a calibration of any length
InitCalCall ==
    /\ InitCommon
    /\ InitIdxIdle
    /\ errq = <<>>
    /\ step = 0
    /\ numSteps = 0
    /\ promptUser \in {0, 1}
    /\ instrSteps \in 0..MaxSteps

InitCal ==
    /\ InitCalCall
    /\ keepLog = TRUE

NextCal ==
    \/ RunCalStart
    \/ RunCalDescribe
    \/ OperatorConfirms
    \/ RunCalMeasure
    \/ OperatorRetries
    \/ RunCalSave

SpecCal == InitCal /\ [][NextCal]_vars

----------------------------------------------------------------------------
(* Claims about the guided calibration run (specification SpecCal) *)

IsCompleted(e) == e.ev = "completed"

\* how often step s was measured, rejected by the instrument, hit by a link
\* failure, accepted
NumAcquireOf(s) == Count(log, LAMBDA e : e = Ev("acquire", s))
NumRejectsOf(s) == Count(log, LAMBDA e : e = Ev("caught_instr", s))
NumLinkFailsOf(s) == Count(log, LAMBDA e : e = Ev("caught_link", s))
NumCompletedOf(s) == Count(log, LAMBDA e : e = Ev("completed", s))

CompletedBefore(s, j) == \E i \in 1..(j - 1) : log[i] = Ev("completed", s)

\* C1: after a rejected measurement of step s (err_check found errors) the next
\* acquire command is for s again, the run is not aborted, and no acquire for a
\* step is sent before the step before it was accepted.
C1_RejectedStepIsRetried ==
    /\ \A i \in DOMAIN log :
          log[i].ev = "caught_instr" =>
              \A j \in (i + 1)..Len(log) :
                  (/\ log[j].ev = "acquire"
                   /\ \A k \in (i + 1)..(j - 1) : log[k].ev # "acquire")
                  => log[j].n = log[i].n
    /\ \A j \in DOMAIN log :
          (log[j].ev = "acquire" /\ log[j].n > 1) => CompletedBefore(log[j].n - 1, j)
    /\ (log # <<>> /\ log[Len(log)].ev = "caught_instr") =>
          (pc = "retry_prompt" /\ step = log[Len(log)].n /\ raised = NoException)

C1_Witness ==
    \E i \in DOMAIN log : \E j \in DOMAIN log :
        /\ i < j
        /\ log[i] = Ev("caught_instr", 2)
        /\ log[j] = Ev("acquire", 2)

\* C2: a step that was rejected n times (and hit by no link failure) and then
\* accepted was measured n + 1 times and accepted once; once the last step is
\* accepted the run goes on to the save and returns.
C2_RejectedNTimesMeasuredNPlusOne ==
    /\ \A s \in 1..MaxSteps :
          (NumCompletedOf(s) >= 1 /\ NumLinkFailsOf(s) = 0) =>
              /\ NumAcquireOf(s) = NumRejectsOf(s) + 1
              /\ NumCompletedOf(s) = 1
    /\ (numSteps >= 1 /\ NumCompletedOf(numSteps) >= 1) => pc \in {"finalize", "returned"}
    /\ pc = "returned" => log[Len(log)].ev = "save"

C2_Witness ==
    /\ pc = "returned"
    /\ \E s \in 1..MaxSteps :
          /\ NumRejectsOf(s) = 2
          /\ NumLinkFailsOf(s) = 0
          /\ NumAcquireOf(s) = 3
          /\ NumCompletedOf(s) = 1

\* C3 (as claimed): with a retry budget of maxRetries = 1, a step rejected on
\* its first 2 attempts is measured exactly 2 times, the run is aborted, and no
\* save command is sent.
C3_BoundedRetryAborts ==
    LET m == 1
    IN  \A s \in 1..MaxSteps :
            NumRejectsOf(s) >= m + 1 =>
                /\ NumAcquireOf(s) = m + 1
                /\ pc = "raised"
                /\ Count(log, IsSave) = 0

\* C4: initiate comes before every acquire; the steps are accepted in the order
\* 1, 2, ...; save is sent at most once, only after every step 1..step_count
\* was accepted, and it is the last command of the run.
C4_RunFollowsStateMachine ==
    /\ \A j \in DOMAIN log :
          log[j].ev = "acquire" => \E i \in 1..(j - 1) : log[i].ev = "initiate"
    /\ LET done == SelectSeq(log, IsCompleted)
       IN  \A k \in DOMAIN done : done[k].n = k
    /\ Count(log, IsSave) <= 1
    /\ \A j \in DOMAIN log :
          log[j].ev = "save" =>
              /\ j = Len(log)
              /\ \A s \in 1..instrSteps : CompletedBefore(s, j)
    /\ pc = "returned" <=> Count(log, IsSave) = 1

C4_Witness ==
    /\ pc = "returned"
    /\ instrSteps = 2
    /\ NumRejects >= 1
    /\ log[Len(log)].ev = "save"
    /\ CompletedBefore(1, Len(log))
    /\ CompletedBefore(2, Len(log))

\* C5 (as claimed): a link failure while a step is measured ends the run with
\* the link's exception, and no acquire command is sent after it.
C5_LinkFailureIsFatal ==
    \A i \in DOMAIN log :
        log[i].ev = "caught_link" =>
            /\ pc = "raised"
            /\ raised.kind = "VisaIOError"
            /\ \A j \in (i + 1)..Len(log) : log[j].ev # "acquire"

----------------------------------------------------------------------------
(* The measurement / trace index: new_sparam_trace, new_modx_trace and      *)
(* get_meas_number_from_name against the instrument's catalogs              *)

WindowIds == {1, 2, 3}
Channels == {1, 2}
MeasNames == {"A", "B"}
NoName == "-"

\* the ways the instrument spells the sentinel of an empty catalog
EmptySentinels ==
    {<<"E", "M", "P", "T", "Y">>, <<"E", "m", "p", "t", "y">>, <<"e", "m", "p", "t", "y">>}

\* the literal the code looks for
EmptyLiteral == <<"e", "m", "p", "t", "y">>

DecAll(ns) == [i \in 1..Len(ns) |-> Dec(ns[i])]

\* the instrument's reply to 'display:catalog?' and 'display:window<w>:catalog?':
\* the numbers in quotes, or the sentinel when there are none
CatalogResponse(S, sentinel) ==
    IF S = {} THEN Quoted(sentinel) ELSE Quoted(Join(DecAll(Sorted(S))))

\* windows = query('display:catalog?').split(','); str(win) not in windows
WindowAbsent(win, resp) == ~InList(Dec(win), Split(resp, ","))

\* the sentinel looked for without lower()
NextTraceSlotCaseSensitive(resp) ==
    IF Contains(Strip(resp), EmptyLiteral) THEN 1
    ELSE Len(Split(Strip(resp), ",")) + 1

\* traces = query(...).strip(); 1 if 'empty' in traces.lower(), else
\* len(traces.split(',')) + 1
NextTraceSlot(resp) ==
    IF Contains(Lower(Strip(resp)), EmptyLiteral) THEN 1
    ELSE Len(Split(Strip(resp), ",")) + 1

NamesOf(ms) == {ms[i].name : i \in 1..Len(ms)}
NumOf(ms, name) == (CHOOSE i \in 1..Len(ms) : ms[i].name = name)

AllNums == UNION {{meas[c][i].num : i \in 1..Len(meas[c])} : c \in DOMAIN meas}
NextMeasNum == IF AllNums = {} THEN 1 ELSE (CHOOSE m \in AllNums : \A x \in AllNums : x <= m) + 1

\* the instrument executes a define of measurement name in channel ch: a new
\* name is appended to the catalog, a name already there is an error
DefineMeas(name, ch) ==
    IF name \in NamesOf(meas[ch])
    THEN [meas |-> meas, errs |-> <<ErrHeader>>]
    ELSE [meas |-> [meas EXCEPT ![ch] = Append(@, [name |-> name, num |-> NextMeasNum])],
          errs |-> <<>>]

\* the instrument executes 'calculate<ch>:parameter:select "<name>"': an unknown
\* name is an error and leaves the selection as it was
SelectMeas(name, ch) ==
    IF name \in NamesOf(meas[ch])
    THEN [selected |-> [selected EXCEPT ![ch] = name], errs |-> <<>>]
    ELSE [selected |-> selected, errs |-> <<ErrHeader>>]

\* the instrument executes 'display:window<w>:trace<t>:feed': a free slot of the
\* window becomes occupied; an occupied one stays as it is and is an error
FeedTrace(traces, win, t) ==
    IF t \in traces[win]
    THEN [traces |-> traces, errs |-> <<ErrRange>>]
    ELSE [traces |-> [traces EXCEPT ![win] = @ \cup {t}], errs |-> <<>>]

\* the window part shared by the create-trace operations, from the window
\* catalog query to the feed: what was found, what was decided, what was sent
\* and the display afterwards
FeedIntoWindow(name, win, sentinel) ==
    LET stateOn == WindowAbsent(win, CatalogResponse(windows, sentinel))
        wins1 == IF stateOn THEN windows \cup {win} ELSE windows
        nextTrace == NextTraceSlot(CatalogResponse(winTraces[win], sentinel))
        fed == FeedTrace(winTraces, win, nextTrace)
    IN  [stateOn |-> stateOn, nextTrace |-> nextTrace,
         wins |-> windows, slots |-> winTraces[win],
         windows |-> wins1, winTraces |-> fed.traces, errs |-> fed.errs,
         sent |-> <<Ev("display:catalog?", 0)>>
                  \o (IF stateOn THEN <<Ev("window:state on", win)>> ELSE <<>>)
                  \o <<Ev("window:catalog?", win), Ev("trace:feed", nextTrace)>>]

\* the spellings of the sentinel a call can meet: they differ only when one of
\* the two catalogs it queries is empty
SentinelChoices(win) ==
    IF windows = {} \/ winTraces[win] = {} THEN EmptySentinels
    ELSE {EmptyLiteral}

\* new_sparam_trace(measName, measParam, win, ch), sentinel being the spelling
\* of an empty catalog the instrument answers with
NewSparamTraceCall(name, win, ch, sentinel) ==
    LET d == DefineMeas(name, ch)
        f == FeedIntoWindow(name, win, sentinel)
        r == ErrCheck(errq \o d.errs \o f.errs)
    IN  /\ meas' = d.meas
        /\ windows' = f.windows
        /\ winTraces' = f.winTraces
        /\ errq' = r.q
        /\ raised' = ErrCheckRaised(r)
        /\ log' = <<Ev("define", ch)>> \o f.sent \o <<Ev("*opc?", 0)>>
                  \o ErrQueries(r.queries)
        /\ call' = [op |-> "new_sparam_trace", name |-> name, win |-> win,
                    ch |-> ch, fed |-> TRUE, stateOn |-> f.stateOn,
                    nextTrace |-> f.nextTrace, wins |-> f.wins,
                    slots |-> f.slots]
        /\ UNCHANGED <<timeout, calVars, selected, ret, inst>>

NewSparamTrace ==
    /\ pc = "idle"
    /\ \E name \in MeasNames, win \in WindowIds, ch \in Channels :
       \E sentinel \in SentinelChoices(win) :
          NewSparamTraceCall(name, win, ch, sentinel)
    /\ pc' = "done"

\* new_modx_trace(measName, measParam, modify, win, ch); paramOk is whether
\* measParam is one of validParams
NewModxTrace ==
    /\ pc = "idle"
    /\ \E name \in MeasNames, win \in WindowIds, ch \in Channels,
          paramOk \in BOOLEAN, modify \in {0, 1} :
       \E sentinel \in SentinelChoices(win) :
          /\ LET none == [op |-> "new_modx_trace", name |-> name, win |-> win,
                          ch |-> ch, fed |-> FALSE, stateOn |-> FALSE,
                          nextTrace |-> 0, wins |-> windows, slots |-> winTraces[win]]
                 s == SelectMeas(name, ch)
                 d == DefineMeas(name, ch)
                 \* err_check right after the select + modify, or after the define
                 r1 == ErrCheck(errq \o (IF modify # 0 THEN s.errs ELSE d.errs))
                 f == FeedIntoWindow(name, win, sentinel)
                 r2 == ErrCheck(r1.q \o f.errs)
             IN  IF ~paramOk
                 THEN /\ raised' = Raise("ValueError", <<>>)
                      /\ log' = <<>>
                      /\ call' = none
                      /\ UNCHANGED <<meas, selected, windows, winTraces, errq>>
                 ELSE IF modify # 0
                 THEN /\ selected' = s.selected
                      /\ errq' = r1.q
                      /\ raised' = ErrCheckRaised(r1)
                      /\ log' = <<Ev("select", ch), Ev("custom:modify", ch)>>
                                \o ErrQueries(r1.queries)
                                \o (IF r1.err = <<>>
                                    THEN <<Ev("*opc?", 0), Ev("syst:err?", 0)>>
                                    ELSE <<>>)
                      /\ call' = none
                      /\ UNCHANGED <<meas, windows, winTraces>>
                 ELSE IF r1.err # <<>>
                 THEN /\ meas' = d.meas
                      /\ errq' = r1.q
                      /\ raised' = ErrCheckRaised(r1)
                      /\ log' = <<Ev("custom:define", ch)>> \o ErrQueries(r1.queries)
                      /\ call' = none
                      /\ UNCHANGED <<selected, windows, winTraces>>
                 ELSE /\ meas' = d.meas
                      /\ windows' = f.windows
                      /\ winTraces' = f.winTraces
                      /\ errq' = r2.q
                      /\ raised' = ErrCheckRaised(r2)
                      /\ log' = <<Ev("custom:define", ch)>> \o ErrQueries(r1.queries)
                                \o f.sent \o <<Ev("*opc?", 0)>> \o ErrQueries(r2.queries)
                      /\ call' = [none EXCEPT !.fed = TRUE, !.stateOn = f.stateOn,
                                              !.nextTrace = f.nextTrace]
                      /\ UNCHANGED selected
    /\ pc' = "done"
    /\ UNCHANGED <<timeout, calVars, ret, inst>>

\* the create-trace operations of the other channel kinds
CustomTraceOps ==
    {"new_mod_trace", "new_sa_trace", "new_gca_trace", "new_gcax_trace",
     "new_smc_trace", "new_nf_trace", "new_nfx_trace"}

\* new_mod_trace, new_sa_trace, new_gcax_trace, new_smc_trace(measName,
\* measParam, win, ch) and new_gca_trace, new_nf_trace, new_nfx_trace(measName,
\* measParam, modify, win, ch); paramOk is whether measParam is one of
\* validParams. new_gca_trace, new_nf_trace and new_nfx_trace have a modify
\* branch with its own err_check; new_mod_trace, new_sa_trace, new_nf_trace and
\* new_nfx_trace end with err_check, the other three with the barrier.
NewCustomTrace ==
    /\ pc = "idle"
    /\ \E op \in CustomTraceOps, name \in MeasNames, win \in WindowIds,
          ch \in Channels, paramOk \in BOOLEAN, modify \in {0, 1} :
       \E sentinel \in SentinelChoices(win) :
          /\ modify # 0 => op \in {"new_gca_trace", "new_nf_trace", "new_nfx_trace"}
          /\ LET checksAtEnd == op \in {"new_mod_trace", "new_sa_trace",
                                        "new_nf_trace", "new_nfx_trace"}
                 s == SelectMeas(name, ch)
                 d == DefineMeas(name, ch)
                 f == FeedIntoWindow(name, win, sentinel)
                 \* own: the errors the instrument queued for this call's commands
                 none == [op |-> op, name |-> name, win |-> win,
                          ch |-> ch, fed |-> FALSE, stateOn |-> FALSE,
                          nextTrace |-> 0, wins |-> windows, slots |-> winTraces[win],
                          own |-> IF ~paramOk THEN <<>>
                                  ELSE IF modify # 0 THEN s.errs
                                  ELSE d.errs \o f.errs]
                 \* err_check of the modify branch, and the one after it
                 m1 == ErrCheck(errq \o s.errs)
                 m2 == ErrCheck(m1.q)
                 \* err_check at the end of the create branch
                 r == ErrCheck(errq \o d.errs \o f.errs)
             IN  IF ~paramOk
                 THEN /\ raised' = Raise("ValueError", <<>>)
                      /\ log' = <<>>
                      /\ call' = none
                      /\ UNCHANGED <<meas, selected, windows, winTraces, errq>>
                 ELSE IF modify # 0
                 THEN /\ selected' = s.selected
                      /\ errq' = m1.q
                      /\ raised' = ErrCheckRaised(m1)
                      /\ log' = <<Ev("select", ch), Ev("custom:modify", ch)>>
                                \o ErrQueries(m1.queries)
                                \o (IF m1.err = <<>> /\ checksAtEnd
                                    THEN ErrQueries(m2.queries)
                                    ELSE <<>>)
                      /\ call' = none
                      /\ UNCHANGED <<meas, windows, winTraces>>
                 ELSE /\ Len(errq \o d.errs \o f.errs) <= MaxQueue
                      /\ meas' = d.meas
                      /\ windows' = f.windows
                      /\ winTraces' = f.winTraces
                      /\ errq' = IF checksAtEnd THEN r.q ELSE errq \o d.errs \o f.errs
                      /\ raised' = IF checksAtEnd THEN ErrCheckRaised(r) ELSE NoException
                      /\ log' = <<Ev("custom:define", ch)>> \o f.sent \o <<Ev("*opc?", 0)>>
                                \o (IF checksAtEnd THEN ErrQueries(r.queries) ELSE <<>>)
                      /\ call' = [none EXCEPT !.fed = TRUE, !.stateOn = f.stateOn,
                                              !.nextTrace = f.nextTrace]
                      /\ UNCHANGED selected
    /\ pc' = "done"
    /\ UNCHANGED <<timeout, calVars, ret, inst>>

\* the instrument's reply to 'calculate<ch>:parameter:mnumber?' after the select
\* of name: the number of the selected measurement; when the select failed, the
\* number of the measurement that is still selected, or an empty reply
MnumberReplies(name, ch, sel) ==
    IF name \in NamesOf(meas[ch])
    THEN {NumericResponse(meas[ch][NumOf(meas[ch], name)].num)}
    ELSE {<<"\n">>}
         \cup (IF sel[ch] # NoName
               THEN {NumericResponse(meas[ch][NumOf(meas[ch], sel[ch])].num)}
               ELSE {})

\* get_meas_number_from_name(measName, ch)
GetMeasNumberFromName ==
    /\ pc \in {"idle", "done"}
    /\ Len(errq) < MaxQueue
    /\ \E name \in MeasNames, ch \in Channels :
          LET s == SelectMeas(name, ch)
          IN  /\ selected' = s.selected
              /\ errq' = errq \o s.errs
              /\ \E reply \in MnumberReplies(name, ch, s.selected) :
                    LET n == ParseInt(reply)
                    IN  /\ raised' = IF n.ok THEN NoException
                                     ELSE Raise("ValueError", <<>>)
                        /\ ret' = IF n.ok THEN n.val ELSE 0
              /\ log' = <<Ev("select", ch), Ev("mnumber?", ch)>>
              /\ call' = [op |-> "get_meas_number_from_name", name |-> name, ch |-> ch]
    /\ pc' = "done"
    /\ UNCHANGED <<timeout, calVars, meas, windows, winTraces, inst>>

\* the catalogs an instrument can hold: per channel, distinct names in the
\* order of their creation, numbered by the instrument
NameSeqs ==
    {<<>>} \cup {<<a>> : a \in MeasNames}
    \cup {<<p[1], p[2]>> : p \in {q \in MeasNames \X MeasNames : q[1] # q[2]}}
CatalogOf(ns, base) == [i \in 1..Len(ns) |-> [name |-> ns[i], num |-> base + i]]
Catalogs ==
    {[c \in Channels |-> CatalogOf(f[c], (c - 1) * Cardinality(MeasNames))] :
        f \in [Channels -> NameSeqs]}

\* Specification SpecTrace: one create-trace call on an instrument whose display
\* is whatever was left there (any windows on, any slots occupied in them) and
\* whose first channel holds at most one measurement
InitTrace ==
    /\ InitCommon
    /\ InitCalIdle
    /\ errq = <<>>
    /\ windows \in SUBSET WindowIds
    /\ winTraces \in [WindowIds -> SUBSET (1..MaxSlot)]
    /\ \A w \in WindowIds : w \notin windows => winTraces[w] = {}
    /\ meas \in {m \in Catalogs : Len(m[1]) <= 1 /\ \A c \in Channels \ {1} : m[c] = <<>>}
    /\ selected = [c \in Channels |-> NoName]
    /\ call = [op |-> "none"]

NextTraceOps == NewSparamTrace \/ NewModxTrace

SpecTrace == InitTrace /\ [][NextTraceOps]_vars

\* Specification SpecCustomTrace: one create-trace call of another channel
\* kind, on a display whose windows hold their traces in slots 1, 2, ...
InitCustomTrace ==
    /\ InitTrace
    /\ \A w \in WindowIds : winTraces[w] = 1..Cardinality(winTraces[w])

SpecCustomTrace == InitCustomTrace /\ [][NewCustomTrace]_vars

\* an instrument holding any catalogs, nothing selected, no error queued
InitMeas ==
    /\ InitCommon
    /\ InitCalIdle
    /\ errq = <<>>
    /\ windows = {}
    /\ winTraces = [w \in WindowIds |-> {}]
    /\ meas \in Catalogs
    /\ selected = [c \in Channels |-> NoName]
    /\ call = [op |-> "none"]

IsNewTrace ==
    /\ call.op \in {"new_sparam_trace", "new_modx_trace"} \cup CustomTraceOps
    /\ call.fed

\* C7: the slot a new trace is fed into is 1 when the window's catalog is the
\* empty sentinel (in any spelling), and k + 1 when the catalog lists k slots.
C7_NextSlotIsCountPlusOne ==
    (pc = "done" /\ IsNewTrace) =>
        call.nextTrace = IF call.slots = {} THEN 1 ELSE Cardinality(call.slots) + 1

C7_Witness ==
    /\ pc = "done"
    /\ call.op = "new_sparam_trace"
    /\ call.slots = {1, 2}
    /\ call.nextTrace = 3
    /\ winTraces[call.win] = {1, 2, 3}

C7_WitnessEmpty ==
    /\ pc = "done"
    /\ call.op = "new_modx_trace"
    /\ call.fed
    /\ call.slots = {}
    /\ call.nextTrace = 1

\* C8 (as claimed): the slot computed for a new trace is never one the window's
\* catalog already lists.
C8_NextSlotIsFree ==
    (pc = "done" /\ IsNewTrace) => call.nextTrace \notin call.slots

\* C9 (as claimed): 'window state on' is sent for window w only when w is not
\* in the window catalog the instrument returned.
C9_StateOnOnlyIfAbsent ==
    (pc = "done" /\ IsNewTrace /\ call.stateOn) => call.win \notin call.wins

\* C10 (as claimed): get_meas_number_from_name returns no number for a name
\* that is not in the channel's measurement catalog: the call fails.
C10_AbsentNameFails ==
    (/\ pc = "done"
     /\ call.op = "get_meas_number_from_name"
     /\ call.name \notin NamesOf(meas[call.ch]))
    => raised.kind # "none"

----------------------------------------------------------------------------
(* get_meas_names: the measurement catalog of a channel, with parameter tags *)

\* parameter tags of the standard class (new_sparam_trace, validParams): an
\* S-parameter, and a receiver tag, which contains a comma
TagS11 == <<"S", "1", "1">>
TagA1 == <<"A", ",", " ", "1">>
ParamTags == {TagS11, TagA1}

\* the text of a measurement name
NameText(n) == <<n>>

\* what the instrument answers for a channel without measurements
NoCatalog == <<"N", "O", " ", "C", "A", "T", "A", "L", "O", "G">>

\* the way the catalog spells a tag: as it was defined, or, on firmware that
\* keeps the list unambiguous, with '_' in place of ','
RenderTag(tag, underscore) ==
    IF underscore THEN [i \in 1..Len(tag) |-> IF tag[i] = "," THEN "_" ELSE tag[i]]
    ELSE tag

RECURSIVE CatalogTokens(_, _)
CatalogTokens(ms, underscore) ==
    IF ms = <<>> THEN <<>>
    ELSE <<NameText(ms[1].name), RenderTag(ms[1].param, underscore)>>
         \o CatalogTokens(Tail(ms), underscore)

\* the instrument's reply to 'calculate<ch>:parameter:catalog:extended?':
\* "name,tag,name,tag,..." in creation order
ParameterCatalogResponse(ms, underscore) ==
    IF ms = <<>> THEN Quoted(NoCatalog)
    ELSE Quoted(Join(CatalogTokens(ms, underscore)))

\* l[first - 1 :: 2]: every other element of l, from position first
EveryOther(l, first) ==
    [i \in 1..((Len(l) - first + 2) \div 2) |-> l[first + 2 * (i - 1)]]

\* measDict after 'for n, p in zip(ks, vs): measDict[n] = p'
ZipDict(ks, vs) ==
    LET m == IF Len(ks) < Len(vs) THEN Len(ks) ELSE Len(vs)
    IN  [k \in {ks[i] : i \in 1..m} |->
            vs[CHOOSE i \in 1..m : ks[i] = k /\ \A j \in (i + 1)..m : ks[j] # k]]

\* get_meas_names(ch, includeParams)
GetMeasNames ==
    /\ pc = "idle"
    /\ \E ch \in Channels, includeParams \in {0, 1}, underscore \in BOOLEAN :
          LET raw == ParameterCatalogResponse(meas[ch], underscore)
              measurements == Split(StripChars(raw, {"\"", "\n"}), ",")
              measNames == EveryOther(measurements, 1)
              measParams == EveryOther(measurements, 2)
          IN  /\ ret' = IF includeParams = 1 THEN ZipDict(measNames, measParams)
                        ELSE measNames
              /\ call' = [op |-> "get_meas_names", ch |-> ch,
                          includeParams |-> includeParams,
                          tokens |-> Len(measurements)]
              /\ log' = <<Ev("catalog:extended?", ch)>>
    /\ raised' = NoException
    /\ pc' = "done"
    /\ UNCHANGED <<errq, timeout, calVars, windows, winTraces, meas, selected, inst>>

\* the catalogs with their tags: every measurement of a catalog was defined
\* with one of the tags
TaggedCatalogOf(ms, tags) ==
    [i \in 1..Len(ms) |-> [name |-> ms[i].name, num |-> ms[i].num, param |-> tags[i]]]
TaggedCatalogs ==
    {[c \in Channels |-> TaggedCatalogOf(m[c], t[c])] :
        m \in Catalogs, t \in [Channels -> [1..Cardinality(MeasNames) -> ParamTags]]}

----------------------------------------------------------------------------
(* select_channel, save_csv and configure_receiver_path: the other calls    *)
(* that select a measurement                                                *)

\* the measurement a name text names on the instrument; NoName when it names none
MeasOfText(t) == IF Len(t) = 1 /\ t[1] \in MeasNames THEN t[1] ELSE NoName

\* get_meas_names(ch)[0]: the first of the names the catalog reply splits into
FirstMeasName(raw) == EveryOther(Split(StripChars(raw, {"\"", "\n"}), ","), 1)[1]

\* the reply to 'calculate<ch>:parameter:catalog:extended?' of a channel whose
\* measurements are S-parameters
ExtendedCatalogReply(ch) ==
    ParameterCatalogResponse(
        TaggedCatalogOf(meas[ch], [i \in 1..Len(meas[ch]) |-> TagS11]), FALSE)

\* the instrument's reply to 'SYSTem:ACTive:CHANnel?': a select that was
\* executed makes its channel the active one; after a refused select the
\* active channel is any channel holding a measurement, or 0 for none
ActiveChannelReplies(ch, selectOk) ==
    IF selectOk THEN {NumericResponse(ch)}
    ELSE {NumericResponse(c) : c \in {d \in Channels : meas[d] # <<>>} \cup {0}}

\* select_channel(ch)
SelectChannel ==
    /\ pc \in {"idle", "done"}
    /\ Len(errq) < MaxQueue
    /\ \E ch \in Channels :
          LET first == MeasOfText(FirstMeasName(ExtendedCatalogReply(ch)))
              s == SelectMeas(first, ch)
          IN  /\ selected' = s.selected
              /\ errq' = errq \o s.errs
              /\ \E reply \in ActiveChannelReplies(ch, s.errs = <<>>) :
                    LET n == ParseInt(RStripChars(reply, Whitespace))
                    IN  /\ raised' = IF n.ok THEN NoException
                                     ELSE Raise("ValueError", <<>>)
                        /\ ret' = IF n.ok THEN n.val ELSE 0
              /\ log' = <<Ev("catalog:extended?", ch), Ev("select", ch),
                          Ev("active:channel?", 0)>>
              /\ call' = [op |-> "select_channel", name |-> first, ch |-> ch]
    /\ pc' = "done"
    /\ UNCHANGED <<timeout, calVars, meas, windows, winTraces, inst>>

\* error records 'mmemory:store:csv:format' can add: none when the file is
\* written, one when the instrument cannot write it
StoreErrs == {<<>>, <<ErrHeader>>}

\* what a call that ends with err_check() leaves: r is ErrCheck of the queue
\* the call's commands left
EndsWithErrCheck(sent, r) ==
    [q |-> r.q, raised |-> ErrCheckRaised(r), log |-> sent \o ErrQueries(r.queries)]

\* save_csv(measName, fileName, ch); it returns nothing (ret 0)
SaveCsv ==
    /\ pc \in {"idle", "done"}
    /\ \E measName \in MeasNames, ch \in Channels, stored \in StoreErrs :
          LET s == SelectMeas(measName, ch)
              o == EndsWithErrCheck(<<Ev("select", ch), Ev("store:csv:format", 0)>>,
                                    ErrCheck(errq \o s.errs \o stored))
          IN  /\ selected' = s.selected
              /\ errq' = o.q
              /\ raised' = o.raised
              /\ log' = o.log
              /\ call' = [op |-> "save_csv", name |-> measName, ch |-> ch]
    /\ pc' = "done"
    /\ ret' = 0
    /\ UNCHANGED <<timeout, calVars, meas, windows, winTraces, inst>>

\* arguments of configure_receiver_path: a valid, a differently spelled and an
\* invalid value of receiver and of rfInSwitch; rfAttenuation and ifGain are
\* written as they are given and are values the instrument takes
ReceiverArgs == {<<"b", "2">>, <<"A", "1">>, <<"c", "1">>}
RfInSwitchArgs ==
    {<<"a", "u", "t", "o">>, <<"B", "y", "p", "a", "s", "s", "A", "u", "t", "o">>,
     <<"n", "o", "n", "e">>}

\* the two checks of configure_receiver_path: receiver.lower() is one of the
\* four receivers; rfInSwitch.lower() is one of the first three switch paths
\* for an 'a' receiver and one of the six for a 'b' receiver
ReceiverPathArgsValid(receiver, rfInSwitch) ==
    LET validReceivers == << <<"a", "1">>, <<"b", "1">>, <<"a", "2">>, <<"b", "2">> >>
        validRfInSwitches ==
            << <<"a", "u", "t", "o">>,
               <<"i", "n", "t", "e", "r", "n", "a", "l">>,
               <<"e", "x", "t", "e", "r", "n", "a", "l">>,
               <<"b", "y", "p", "a", "s", "s", "2", "0", "g", "h", "z">>,
               <<"b", "y", "p", "a", "s", "s", "4", "4", "g", "h", "z">>,
               <<"b", "y", "p", "a", "s", "s", "a", "u", "t", "o">> >>
    IN  /\ InList(Lower(receiver), validReceivers)
        /\ IF Lower(receiver) = <<"a", "1">> \/ Lower(receiver) = <<"a", "2">>
           THEN InList(Lower(rfInSwitch), SubSeq(validRfInSwitches, 1, 3))
           ELSE InList(Lower(rfInSwitch), validRfInSwitches)

\* the three settings of configure_receiver_path, each a write and its barrier
ReceiverPathWrites(ch, port) ==
    << <<Ev("element:select:bypass", ch), Ev("*opc?", 0)>>,
       <<Ev("attenuation:receiver:reference", port), Ev("*opc?", 0)>>,
       <<Ev("element:select:ifgain", ch), Ev("*opc?", 0)>> >>

RECURSIVE Flatten(_)
Flatten(ls) == IF ls = <<>> THEN <<>> ELSE Head(ls) \o Flatten(Tail(ls))

\* what configure_receiver_path leaves once its arguments are accepted: sent
\* and queued are the commands sent and the queue left when the barrier
\* failAt got no reply (0: every barrier was answered and err_check ran)
ReceiverPathEnds(sent, queued, failAt) ==
    IF failAt # 0
    THEN [q |-> queued, raised |-> WaitForOpc(timeout, 0, FALSE).raised, log |-> sent]
    ELSE EndsWithErrCheck(sent, ErrCheck(queued))

\* configure_receiver_path(receiver, rfInSwitch, rfAttenuation, ifGain, ch); it
\* returns nothing (ret 0)
ConfigureReceiverPath ==
    /\ pc \in {"idle", "done"}
    /\ \E receiver \in ReceiverArgs, rfInSwitch \in RfInSwitchArgs, ch \in Channels :
          IF ~ReceiverPathArgsValid(receiver, rfInSwitch)
          THEN /\ raised' = Raise("ValueError", <<>>)
               /\ log' = <<>>
               /\ call' = [op |-> "configure_receiver_path", name |-> NoName, ch |-> ch]
               /\ UNCHANGED <<errq, selected>>
          ELSE \E failAt \in 0..3 :
                  LET first == MeasOfText(FirstMeasName(ExtendedCatalogReply(ch)))
                      s == SelectMeas(first, ch)
                      port == ParseInt(<<receiver[Len(receiver)]>>).val
                      done == IF failAt = 0 THEN 3 ELSE failAt
                      o == ReceiverPathEnds(
                              <<Ev("catalog:extended?", ch), Ev("select", ch)>>
                              \o Flatten(SubSeq(ReceiverPathWrites(ch, port), 1, done)),
                              errq \o s.errs,
                              failAt)
                  IN  /\ Len(o.q) <= MaxQueue
                      /\ selected' = s.selected
                      /\ errq' = o.q
                      /\ raised' = o.raised
                      /\ log' = o.log
                      /\ call' = [op |-> "configure_receiver_path", name |-> first,
                                  ch |-> ch]
    /\ pc' = "done"
    /\ ret' = 0
    /\ UNCHANGED <<timeout, calVars, meas, windows, winTraces, inst>>

\* Specification SpecMeas: calls that select a measurement, in any order, on an
\* instrument holding any catalogs
NextMeas ==
    GetMeasNumberFromName \/ SelectChannel \/ SaveCsv \/ ConfigureReceiverPath

SpecMeas == InitMeas /\ [][NextMeas]_vars

\* Specification SpecNames: one get_meas_names call on an instrument holding any
\* catalogs
InitNames ==
    /\ InitCommon
    /\ InitCalIdle
    /\ errq = <<>>
    /\ windows = {}
    /\ winTraces = [w \in WindowIds |-> {}]
    /\ meas \in TaggedCatalogs
    /\ selected = [c \in Channels |-> NoName]
    /\ call = [op |-> "none"]

SpecNames == InitNames /\ [][GetMeasNames]_vars

\* C11: a catalog reply that splits into an odd number of tokens makes
\* get_meas_names fail; it never returns a result in that case.
C11_OddCatalogFails ==
    (pc = "done" /\ call.op = "get_meas_names" /\ call.tokens % 2 = 1)
        => raised.kind # "none"

\* C12: with includeParams = 1 the result maps the name of every measurement of
\* the channel to the tag it was created with, and with includeParams = 0 it
\* lists the names in creation order, one entry per measurement, whatever the
\* tags are.
C12_NamesAndTagsRoundTrip ==
    (pc = "done" /\ call.op = "get_meas_names")
        => LET ms == meas[call.ch]
           IN  IF call.includeParams = 1
               THEN \A i \in 1..Len(ms) :
                       /\ NameText(ms[i].name) \in DOMAIN ret
                       /\ ret[NameText(ms[i].name)] = ms[i].param
               ELSE ret = [i \in 1..Len(ms) |-> NameText(ms[i].name)]

----------------------------------------------------------------------------
(* Data transfer and channel configuration: get_trace, get_mod_data,        *)
(* configure_mod_sweep, configure_modx_mixer                                 *)

Borders == {"norm", "swap"}
Formats == {"ascii", "real32", "real64"}

\* a binary block query as the instrument receives it: the transfer format
\* and the selection of channel ch at that moment
BinEv(e, ch, i, sel) ==
    [ev |-> e, n |-> ch, border |-> i.border, format |-> i.format, sel |-> sel]

IsBinaryQuery(e) == e.ev \in {"data?", "x?", "path:data?"}

\* the instrument after 'format:border swap' and 'format real,64'
FormatForTransfer(i) == [i EXCEPT !.border = "swap", !.format = "real64"]

\* the instrument after 'format ascii'
FormatAscii(i) == [i EXCEPT !.format = "ascii"]

\* get_trace(measName, ch); isStr is whether measName is a string; ret tells
\* whose data the instrument transferred
GetTrace ==
    /\ pc \in {"idle", "done"}
    /\ Len(errq) < MaxQueue
    /\ \E measName \in MeasNames, isStr \in BOOLEAN, ch \in Channels,
          linkOk \in BOOLEAN, linkOk2 \in BOOLEAN :
          IF ~isStr
          THEN /\ raised' = Raise("TypeError", <<>>)
               /\ log' = <<>>
               /\ call' = [op |-> "get_trace", name |-> NoName, ch |-> ch,
                           before |-> [border |-> inst.border, format |-> inst.format,
                                       sel |-> selected[ch]]]
               /\ UNCHANGED <<errq, selected, inst, ret>>
          ELSE LET s == SelectMeas(measName, ch)
                   i == FormatForTransfer(inst)
                   w == WaitForOpc(timeout, 0, linkOk)
                   w2 == WaitForOpc(timeout, 0, linkOk2)
               IN  /\ selected' = s.selected
                   /\ errq' = errq \o s.errs
                   /\ inst' = i
                   /\ raised' = IF linkOk THEN w2.raised ELSE w.raised
                   /\ log' = <<Ev("select", ch), Ev("format:border swap", 0),
                               Ev("format real,64", 0),
                               BinEv("data?", ch, i, s.selected[ch]), Ev("*opc?", 0)>>
                             \o (IF linkOk
                                 THEN <<BinEv("x?", ch, i, s.selected[ch]), Ev("*opc?", 0)>>
                                 ELSE <<>>)
                   /\ ret' = IF linkOk /\ linkOk2 THEN [of |-> s.selected[ch]] ELSE ret
                   /\ call' = [op |-> "get_trace", name |-> measName, ch |-> ch,
                               before |-> [border |-> inst.border, format |-> inst.format,
                                           sel |-> selected[ch]]]
    /\ pc' = "done"
    /\ UNCHANGED <<timeout, calVars, windows, winTraces, meas>>

\* the value of the distortion table the instrument reports
TableValue == 7

\* get_mod_data(modTableParam, ch); paramOk is whether modTableParam is one of
\* validParams
GetModData ==
    /\ pc \in {"idle", "done"}
    /\ \E paramOk \in BOOLEAN, ch \in Channels :
          /\ call' = [op |-> "get_mod_data", ch |-> ch, paramOk |-> paramOk]
          /\ IF ~paramOk
             THEN /\ raised' = Raise("ValueError", <<>>)
                  /\ log' = <<>>
                  /\ UNCHANGED <<inst, ret>>
             ELSE LET raw == NumericResponse(TableValue)
                      v == ParseInt(RStripChars(raw, Whitespace))
                  IN  /\ inst' = FormatAscii(inst)
                      /\ log' = <<Ev("format ascii", 0), Ev("table:data:value?", ch)>>
                      /\ raised' = IF v.ok THEN NoException ELSE Raise("ValueError", <<>>)
                      /\ ret' = IF v.ok THEN v.val ELSE ret
    /\ pc' = "done"
    /\ UNCHANGED <<errq, timeout, calVars, windows, winTraces, meas, selected>>

\* the enumerations of configure_mod_sweep and configure_modx_mixer, and the
\* values given for them: a valid one, a valid one in another case, and an
\* invalid one
ValidSweepTypes == << <<"f", "i", "x", "e", "d">>, <<"p", "o", "w", "e", "r">> >>
ValidPowerContexts == << <<"d", "i", "n", "1">>, <<"d", "o", "u", "t", "2">> >>
ValidSidebands == << <<"l", "o", "w">>, <<"h", "i", "g", "h">> >>
SweepTypeArgs == {<<"f", "i", "x", "e", "d">>, <<"P", "o", "w", "e", "r">>, <<"c", "w">>}
PowerContextArgs == {<<"d", "i", "n", "1">>, <<"D", "O", "U", "T", "2">>, <<"d", "i", "n", "3">>}
SidebandArgs == {<<"l", "o", "w">>, <<"H", "i", "g", "h">>, <<"b", "o", "t", "h">>}

\* x.lower() in valid
ValidEnum(x, valid) == InList(Lower(x), valid)

\* the writes of configure_mod_sweep before powerContext is looked at
SweepWrites(sweepType, ch) ==
    <<Ev("sweep:type", ch)>>
    \o (IF Lower(sweepType) = ValidSweepTypes[2]
        THEN <<Ev("ramp:level:start", ch), Ev("ramp:level:stop", ch),
               Ev("ramp:points", ch), Ev("list:nbw", ch), Ev("ramp:nbw:auto", ch)>>
        ELSE <<>>)
    \o <<Ev("carrier:frequency", ch), Ev("frequency:span", ch),
         Ev("bandwidth:noise", ch)>>

\* the commands configure_mod_sweep has sent when it returns or raises
ConfigureModSweepSent(sweepType, powerContext, ch) ==
    IF ~ValidEnum(sweepType, ValidSweepTypes) THEN <<>>
    ELSE IF ~ValidEnum(powerContext, ValidPowerContexts) THEN SweepWrites(sweepType, ch)
    ELSE SweepWrites(sweepType, ch)
         \o <<Ev("carrier:level:port", ch), Ev("carrier:level", ch), Ev("*opc?", 0)>>

\* configure_mod_sweep(sweepType, ..., powerContext, ..., ch)
ConfigureModSweep ==
    /\ pc \in {"idle", "done"}
    /\ \E sweepType \in SweepTypeArgs, powerContext \in PowerContextArgs, ch \in Channels :
          /\ log' = ConfigureModSweepSent(sweepType, powerContext, ch)
          /\ raised' = IF ValidEnum(sweepType, ValidSweepTypes)
                          /\ ValidEnum(powerContext, ValidPowerContexts)
                       THEN NoException ELSE Raise("ValueError", <<>>)
          /\ call' = [op |-> "configure_mod_sweep", ch |-> ch, sweepType |-> sweepType,
                      powerContext |-> powerContext]
    /\ pc' = "done"
    /\ UNCHANGED <<errq, timeout, calVars, windows, winTraces, meas, selected, ret, inst>>

\* the commands configure_modx_mixer has sent when it returns or raises
ConfigureModxMixerSent(sideband, ch) ==
    <<Ev("carrier:frequency?", ch), Ev("mixer:input:frequency", ch),
      Ev("mixer:lo1:frequency", ch), Ev("*opc?", 0)>>
    \o (IF ValidEnum(sideband, ValidSidebands)
        THEN <<Ev("mixer:sideband", ch), Ev("mixer:calculate output", ch), Ev("*opc?", 0)>>
        ELSE <<>>)

\* configure_modx_mixer(loFreq, sideband, ch)
ConfigureModxMixer ==
    /\ pc \in {"idle", "done"}
    /\ \E sideband \in SidebandArgs, ch \in Channels :
          /\ log' = ConfigureModxMixerSent(sideband, ch)
          /\ raised' = IF ValidEnum(sideband, ValidSidebands)
                       THEN NoException ELSE Raise("ValueError", <<>>)
          /\ call' = [op |-> "configure_modx_mixer", ch |-> ch, sideband |-> sideband]
    /\ pc' = "done"
    /\ UNCHANGED <<errq, timeout, calVars, windows, winTraces, meas, selected, ret, inst>>

----------------------------------------------------------------------------
(* get_ecal_sparam_data: the block data of an ECal path and its decoding *)

MaxRaw == 10
MaxPoints == 2

EcalPaths == {"a", "b", "ab"}

\* the number of point-count chunks get_ecal_sparam_data reads from a block:
\* frequency, then a real and an imaginary chunk per parameter
ExpectedBlocks(path) == IF path = "ab" THEN 9 ELSE 3

\* raw[a:b] on an array: the indices are clipped to its length
PySlice(raw, a, b) ==
    LET lo == IF a < Len(raw) THEN a ELSE Len(raw)
        hi == IF b < Len(raw) THEN b ELSE Len(raw)
    IN  SubSeq(raw, lo + 1, hi)

\* re + 1j * im with the two chunks in the wrong places
ComplexOfSwapped(re, im) ==
    IF Len(re) = Len(im)
    THEN [ok |-> TRUE, val |-> [i \in 1..Len(re) |-> [re |-> im[i], im |-> re[i]]]]
    ELSE [ok |-> FALSE, val |-> <<>>]

\* re + 1j * im on arrays: element by element; an array of one element is
\* broadcast over the other; any other pair of lengths is an error
ComplexOf(re, im) ==
    IF Len(re) = Len(im)
    THEN [ok |-> TRUE, val |-> [i \in 1..Len(re) |-> [re |-> re[i], im |-> im[i]]]]
    ELSE IF Len(im) = 1
    THEN [ok |-> TRUE, val |-> [i \in 1..Len(re) |-> [re |-> re[i], im |-> im[1]]]]
    ELSE IF Len(re) = 1
    THEN [ok |-> TRUE, val |-> [i \in 1..Len(im) |-> [re |-> re[1], im |-> im[i]]]]
    ELSE [ok |-> FALSE, val |-> <<>>]

\* chunk k (from 0) of a block of numPoints-sized chunks
Chunk(raw, numPoints, k) == PySlice(raw, k * numPoints, (k + 1) * numPoints)

\* parameter p (from 1) of a block: its real chunk and the imaginary chunk after it
ParamOf(raw, numPoints, p) ==
    ComplexOf(Chunk(raw, numPoints, 2 * p - 1), Chunk(raw, numPoints, 2 * p))

\* the body of the loop of get_ecal_sparam_data for one block
DecodeBlock(raw, numPoints, path) ==
    LET freq == Chunk(raw, numPoints, 0)
        s11 == ParamOf(raw, numPoints, 1)
        s12 == ParamOf(raw, numPoints, 2)
        s21 == ParamOf(raw, numPoints, 3)
        s22 == ParamOf(raw, numPoints, 4)
        none == [ok |-> TRUE, val |-> <<>>]
    IN  [ok |-> s11.ok /\ (path = "ab" => s12.ok /\ s21.ok /\ s22.ok),
         freq |-> freq, s11 |-> s11.val,
         s12 |-> IF path = "ab" /\ s11.ok THEN s12.val ELSE <<>>,
         s21 |-> IF path = "ab" /\ s11.ok /\ s12.ok THEN s21.val ELSE <<>>,
         s22 |-> IF path = "ab" /\ s11.ok /\ s12.ok /\ s21.ok THEN s22.val ELSE <<>>]

\* the instrument's reply to 'sense:correction:ckit:ecal:list?'
EcalListResponse(n) == NumericResponse(n)

\* get_ecal_module_nums(): modList, from the reply; int() of a token that is
\* not an integer raises ValueError (ok is FALSE)
EcalModuleNums(resp) ==
    LET toks == Split(RemoveChar(Strip(resp), "+"), ",")
    IN  [ok |-> \A i \in 1..Len(toks) : ParseInt(toks[i]).ok,
         val |-> [i \in 1..Len(toks) |-> ParseInt(toks[i]).val]]

\* the queries of get_ecal_module_states and get_individual_ecal_info
EcalInfoQueries(ecalNum) ==
    <<Ev("path:count? a", ecalNum), Ev("path:count? b", ecalNum),
      Ev("path:count? ab", ecalNum), Ev("clist?", ecalNum), Ev("information?", ecalNum)>>

\* get_ecal_sparam_data(ecalNum, char=0, debug=0) on an ECal whose only block
\* is inst.ecal; resp is the reply to the list query (no module, one module, or
\* a blank line)
GetEcalSparamData ==
    /\ pc \in {"idle", "done"}
    /\ \E ecalNum \in {1, 2},
          resp \in {EcalListResponse(0), EcalListResponse(1), <<"\n">>} :
          LET nums == EcalModuleNums(resp)
              modList == nums.val
              i == FormatForTransfer(inst)
              numPoints == ParseInt(Dec(inst.ecal.numPoints)).val
              d == DecodeBlock(inst.ecal.raw, numPoints, inst.ecal.path)
          IN  /\ call' = [op |-> "get_ecal_sparam_data", ecalNum |-> ecalNum,
                          modList |-> modList, decoded |-> d]
              /\ IF ~nums.ok
                 THEN /\ raised' = Raise("ValueError", <<>>)
                      /\ log' = <<Ev("ecal:list?", 0)>>
                      /\ UNCHANGED <<inst, ret>>
                 ELSE IF modList = <<0>>
                 THEN /\ raised' = Raise("AttributeError", <<>>)
                      /\ log' = <<Ev("ecal:list?", 0)>>
                      /\ UNCHANGED <<inst, ret>>
                 ELSE IF ~InList(ecalNum, modList)
                 THEN /\ raised' = Raise("ValueError", <<>>)
                      /\ log' = <<Ev("ecal:list?", 0)>>
                      /\ UNCHANGED <<inst, ret>>
                 ELSE /\ inst' = i
                      /\ log' = <<Ev("ecal:list?", 0)>> \o EcalInfoQueries(ecalNum)
                                \o <<Ev("format:border swap", 0), Ev("format real,64", 0),
                                     BinEv("path:data?", ecalNum, i, NoName)>>
                      /\ raised' = IF d.ok THEN NoException
                                   ELSE Raise("ValueError", <<>>)
                      /\ ret' = IF d.ok THEN [freq |-> d.freq, s11 |-> d.s11] ELSE ret
    /\ pc' = "done"
    /\ UNCHANGED <<errq, timeout, calVars, windows, winTraces, meas, selected>>

\* the blocks an ECal can answer with: any length up to MaxRaw, values that
\* tell the positions apart
RawBases == {0 - 2, 10}
RawBlock(len, base) == [i \in 1..len |-> base + i]
EcalData ==
    {[raw |-> RawBlock(len, base), numPoints |-> n, path |-> p] :
        len \in 0..MaxRaw, base \in RawBases, n \in 1..MaxPoints, p \in EcalPaths}

\* a well-formed one-port block of two points
EcalSample == [raw |-> RawBlock(6, 0 - 2), numPoints |-> 2, path |-> "a"]

\* Specification SpecDecode: get_ecal_sparam_data on an ECal holding any block
InitDecode ==
    /\ InitSession
    /\ InitCalIdle
    /\ InitIdxIdle
    /\ errq = <<>>
    /\ inst \in {[InstIdle EXCEPT !.ecal = e] : e \in EcalData}

SpecDecode == InitDecode /\ [][GetEcalSparamData]_vars

\* Specification SpecData: data transfers and channel configuration in any
\* order, on an instrument whose transfer format is whatever was left there
InitData ==
    /\ InitSession
    /\ InitCalIdle
    /\ errq = <<>>
    /\ windows = {}
    /\ winTraces = [w \in WindowIds |-> {}]
    /\ meas \in {m \in Catalogs : \A c \in Channels \ {1} : m[c] = <<>>}
    /\ selected = [c \in Channels |-> NoName]
    /\ call = [op |-> "none"]
    /\ inst \in {[InstIdle EXCEPT !.border = b, !.format = f, !.ecal = EcalSample] :
                    b \in Borders, f \in Formats}

NextData ==
    \/ GetTrace
    \/ GetModData
    \/ GetEcalSparamData
    \/ ConfigureModSweep
    \/ ConfigureModxMixer

SpecData == InitData /\ [][NextData]_vars

\* the commands of the last call sent before its i-th
SentBefore(e, i) == \E j \in 1..(i - 1) : log[j] = e

\* C13: every binary data query of get_trace reaches the instrument
\* while the byte order is 'swap', the format is 'real,64' and the requested
\* measurement is the selected one of the channel; every binary query of
\* get_ecal_sparam_data reaches it in that byte order and format.
C13_BinaryQueryInRequiredState ==
    (pc = "done" /\ call.op \in {"get_trace", "get_ecal_sparam_data"})
        => \A i \in 1..Len(log) :
              IsBinaryQuery(log[i])
                  => /\ log[i].border = "swap"
                     /\ log[i].format = "real64"
                     /\ call.op = "get_trace" => log[i].sel = call.name

\* what does hold of every binary data query of get_trace and of
\* get_ecal_sparam_data: it is sent after the call itself has sent
\* 'format:border swap' and 'format real,64' (and, in get_trace, the select),
\* and it reaches the instrument in that byte order and format
TransferFormatReasserted ==
    (pc = "done" /\ call.op \in {"get_trace", "get_ecal_sparam_data"})
        => \A i \in 1..Len(log) :
              IsBinaryQuery(log[i])
                  => /\ log[i].border = "swap"
                     /\ log[i].format = "real64"
                     /\ SentBefore(Ev("format:border swap", 0), i)
                     /\ SentBefore(Ev("format real,64", 0), i)
                     /\ call.op = "get_trace" => SentBefore(Ev("select", call.ch), i)

\* C20: an operation that validates an enumerated or typed argument
\* (configure_mod_sweep, configure_modx_mixer, get_trace, get_mod_data) and
\* rejects it has written no command to the instrument.
C20_RejectedBeforeAnyCommand ==
    (pc = "done"
     /\ call.op \in {"configure_mod_sweep", "configure_modx_mixer", "get_trace",
                     "get_mod_data"}
     /\ raised.kind \in {"ValueError", "TypeError"})
        => log = <<>>


\* the last call was get_ecal_sparam_data and it read the ECal's block
DecodedBlock ==
    /\ pc = "done"
    /\ call.op = "get_ecal_sparam_data"
    /\ \E i \in 1..Len(log) : log[i].ev = "path:data?"

\* C14: when the block's length is not an exact multiple of the point count
\* times the number of expected chunks (3 for a one-port path, 9 for 'ab'),
\* get_ecal_sparam_data fails and returns nothing.
C14_BadLengthFails ==
    (DecodedBlock
     /\ Len(inst.ecal.raw) % (inst.ecal.numPoints * ExpectedBlocks(inst.ecal.path)) # 0)
        => raised.kind # "none"

\* the parameters decoded from a block, in the order of their chunks
DecodedParams == <<call.decoded.s11, call.decoded.s12, call.decoded.s21, call.decoded.s22>>

\* C15: for a block laid out as point-count chunks (frequency, then real and
\* imaginary chunk of each parameter), element i of a decoded parameter has
\* element i of its real chunk as real part and element i of its imaginary
\* chunk as imaginary part, and the frequency vector is the first chunk.
C15_DecodesChunkLayout ==
    (DecodedBlock
     /\ Len(inst.ecal.raw) = inst.ecal.numPoints * ExpectedBlocks(inst.ecal.path))
        => LET raw == inst.ecal.raw
               n == inst.ecal.numPoints
               params == (ExpectedBlocks(inst.ecal.path) - 1) \div 2
           IN  /\ raised.kind = "none"
               /\ call.decoded.freq = SubSeq(raw, 1, n)
               /\ \A p \in 1..params :
                     /\ Len(DecodedParams[p]) = n
                     /\ \A i \in 1..n :
                           DecodedParams[p][i]
                               = [re |-> raw[(2 * p - 1) * n + i], im |-> raw[2 * p * n + i]]
               /\ ret = [freq |-> call.decoded.freq, s11 |-> call.decoded.s11]

\* real chunk [1, 2] and imaginary chunk [3, 4] of two points decode to
\* [1+3i, 2+4i]
C15_Witness ==
    /\ DecodedBlock
    /\ inst.ecal.numPoints = 2
    /\ Len(inst.ecal.raw) = 6
    /\ ret.s11 = <<[re |-> 1, im |-> 3], [re |-> 2, im |-> 4]>>
    /\ ret.freq = SubSeq(inst.ecal.raw, 1, 2)

----------------------------------------------------------------------------
(* Cal sets: list_cal_sets, load_cal_set and deembed_calset *)

\* deembedChannel: the scratch channel (and window) of the circuit-simulator path
DeembedChannel == 200

\* names of cal sets: one of the standard class, one of no class, the name
\* given for the result, and the fixed name of the direct path's first stage
CalStd == <<"c", "_", "S", "T", "D">>
CalRaw == <<"c">>
FinalName == <<"f">>
Intermediate == <<"i", "n", "t", "e", "r", "m", "e", "d", "i", "a", "t", "e">>
FamilyStd == <<"_", "S", "T", "D">>
CalSetOrder == <<CalRaw, CalStd, FinalName, Intermediate>>
CalSetNames == {CalSetOrder[i] : i \in 1..Len(CalSetOrder)}

\* defaults of new_sparam_trace
DefaultMeasName == "ReturnLoss"

\* the instrument's reply to 'cset:catalog?'
CalSetCatalogResponse(S) == Quoted(Join(SelectSeq(CalSetOrder, LAMBDA n : n \in S)))

\* list_cal_sets(), from the reply
ListCalSets(resp) == Split(RemoveChar(RStripChars(resp, Whitespace), "\""), ",")

\* a load that takes every name
CalSetAlwaysAvailable(calSet, resp) == TRUE

\* 'calSet not in availableCalSets' of load_cal_set, negated
CalSetAvailable(calSet, resp) == InList(calSet, ListCalSets(resp))

ErrIf(b, e) == IF b THEN <<e>> ELSE <<>>

\* load_cal_set(calSet, 1, ch) on an instrument holding the cal sets S with the
\* error queue q; activateErrs is what the activate leaves in the queue
LoadCalSet(calSet, ch, S, q, activateErrs, linkOk) ==
    LET w == WaitForOpc(timeout, 0, linkOk)
        r == ErrCheck(q \o activateErrs)
        upTo == <<Ev("cset:catalog?", 0), Ev("activate", ch), Ev("*opc?", 0)>>
    IN  IF ~CalSetAvailable(calSet, CalSetCatalogResponse(S))
        THEN [sent |-> <<Ev("cset:catalog?", 0)>>, q |-> q,
              raised |-> Raise("ValueError", <<>>)]
        ELSE IF w.raised.kind # "none"
        THEN [sent |-> upTo, q |-> q \o activateErrs, raised |-> w.raised]
        ELSE [sent |-> upTo \o ErrQueries(r.queries), q |-> r.q,
              raised |-> ErrCheckRaised(r)]

\* new_sparam_trace(win=deembedChannel, ch=deembedChannel) with the error queue q
ScratchTrace(q, sentinel, linkOk) ==
    LET d == DefineMeas(DefaultMeasName, DeembedChannel)
        f == FeedIntoWindow(DefaultMeasName, DeembedChannel, sentinel)
        w == WaitForOpc(timeout, 0, linkOk)
        r == ErrCheck(q \o d.errs \o f.errs)
        upTo == <<Ev("define", DeembedChannel)>> \o f.sent \o <<Ev("*opc?", 0)>>
    IN  [meas |-> d.meas, windows |-> f.windows, winTraces |-> f.winTraces,
         sent |-> IF linkOk THEN upTo \o ErrQueries(r.queries) ELSE upTo,
         q |-> IF linkOk THEN r.q ELSE q \o d.errs \o f.errs,
         raised |-> IF linkOk THEN ErrCheckRaised(r) ELSE w.raised]

\* hold_trigger(ch)
HoldTrigger(ch) == <<Ev("trigger:source immediate", 0), Ev("sweep:mode hold", ch)>>

\* the writes that attach the fixture file of a port to the draft circuit
FsimCircuit(port) ==
    <<Ev("fsim:circuit:add", port), Ev("fsim:circuit:file", port),
      Ev("fsim:circuit:file:modify", port), Ev("fsim:circuit:file:extrapolate", port),
      Ev("fsim:circuit:ports", port)>>

\* the compose commands of the circuit-simulator path, lines 981 to 1004
ComposeWrites(portOnePowerComp, portTwoPowerComp) ==
    FsimCircuit(1) \o FsimCircuit(2)
    \o <<Ev("fsim:apply", DeembedChannel), Ev("fsim:state 1", DeembedChannel)>>
    \o (IF portOnePowerComp = 1 THEN <<Ev("fsim:power:compensate", 1)>> ELSE <<>>)
    \o (IF portTwoPowerComp = 1 THEN <<Ev("fsim:power:compensate", 2)>> ELSE <<>>)
    \o <<Ev("cset:flatten", DeembedChannel), Ev("channels:delete", DeembedChannel)>>

\* a deembed_calset that returns without looking at the error queue
DeembedDrainSkipped(q) == [err |-> <<>>, q |-> q, queries |-> 0]

\* the err_check() that ends deembed_calset
DeembedDrain(q) == ErrCheck(q)

\* the instrument without the scratch channel
DeleteScratch(f) == [c \in DOMAIN f |-> IF c = DeembedChannel THEN <<>> ELSE f[c]]

\* the circuit-simulator path (enhancedResponse = 1) from line 927 to its last
\* command, on the cal sets S and the error queue q; faults are the commands
\* the instrument answers with an error, failAt the wait_for_opc that times out
DeembedEnhanced(base, S, q, sentinel, portOnePowerComp, portTwoPowerComp, faults, failAt) ==
    LET std == Contains(base, FamilyStd)
        t == IF std THEN ScratchTrace(q, sentinel, failAt # 1)
             ELSE [meas |-> meas, windows |-> windows, winTraces |-> winTraces,
                   sent |-> <<>>, q |-> q, raised |-> NoException]
        l == LoadCalSet(base, DeembedChannel, S, t.q,
                        ErrIf("activate" \in faults, ErrRange), failAt # 2)
        attached == "attach" \notin faults
        qc == l.q \o ErrIf(~attached, ErrHeader)
        kept == [meas |-> t.meas, windows |-> t.windows, winTraces |-> t.winTraces,
                 chans |-> IF std THEN inst.chans \cup {DeembedChannel} ELSE inst.chans,
                 csets |-> S, done |-> FALSE, ok1 |-> TRUE]
    IN  IF t.raised.kind # "none"
        THEN kept @@ [sent |-> t.sent, q |-> t.q, raised |-> t.raised, scratch |-> std]
        ELSE IF l.raised.kind # "none"
        THEN kept @@ [sent |-> t.sent \o l.sent, q |-> l.q, raised |-> l.raised,
                      scratch |-> std \/ Len(l.sent) > 1]
        ELSE [meas |-> DeleteScratch(t.meas),
              windows |-> t.windows \ {DeembedChannel},
              winTraces |-> [w \in DOMAIN t.winTraces |->
                                IF w = DeembedChannel THEN {} ELSE t.winTraces[w]],
              chans |-> inst.chans \ {DeembedChannel},
              csets |-> IF attached THEN S \cup {FinalName} ELSE S,
              sent |-> t.sent \o l.sent \o HoldTrigger(DeembedChannel)
                       \o ComposeWrites(portOnePowerComp, portTwoPowerComp),
              q |-> qc, raised |-> NoException, scratch |-> TRUE, done |-> TRUE,
              ok1 |-> TRUE]

\* the direct path (enhancedResponse = 0), lines 1006 to 1009: a stage the
\* instrument cannot do (its source cal set is missing, or a fault) leaves an
\* error in the queue and no cal set
DeembedDirect(base, S, q, faults, failAt) ==
    LET ok1 == base \in S /\ "stage1" \notin faults
        S1 == IF ok1 THEN S \cup {Intermediate} ELSE S
        q1 == q \o ErrIf(~ok1, ErrRange)
        ok2 == Intermediate \in S1 /\ "stage2" \notin faults
        S2 == IF ok2 THEN S1 \cup {FinalName} ELSE S1
        q2 == q1 \o ErrIf(~ok2, ErrRange)
        same == [meas |-> meas, windows |-> windows, winTraces |-> winTraces,
                 chans |-> inst.chans, scratch |-> FALSE, ok1 |-> ok1]
    IN  IF failAt = 1
        THEN same @@ [sent |-> <<Ev("deembed:stage1", 0), Ev("*opc?", 0)>>,
                      csets |-> S1, q |-> q1, raised |-> Raise("VisaIOError", <<>>),
                      done |-> FALSE]
        ELSE IF failAt = 2
        THEN same @@ [sent |-> <<Ev("deembed:stage1", 0), Ev("*opc?", 0),
                                 Ev("deembed:stage2", 0), Ev("*opc?", 0)>>,
                      csets |-> S2, q |-> q2, raised |-> Raise("VisaIOError", <<>>),
                      done |-> FALSE]
        ELSE same @@ [sent |-> <<Ev("deembed:stage1", 0), Ev("*opc?", 0),
                                 Ev("deembed:stage2", 0), Ev("*opc?", 0)>>,
                      csets |-> S2, q |-> q2, raised |-> NoException, done |-> TRUE]

\* the commands the instrument can answer with an error, per path
EnhancedFaults == {"delete", "activate", "attach"}
DirectFaults == {"delete", "stage1", "stage2"}

\* the spellings of the empty sentinel the scratch trace can meet
ScratchSentinels(base) ==
    IF Contains(base, FamilyStd) THEN SentinelChoices(DeembedChannel) ELSE {EmptyLiteral}

\* lines 923-924: the cal sets and the error queue after 'CSET:DELete'
AfterOverWrite(overWrite, faults) ==
    [csets |-> IF overWrite = 1 THEN inst.csets \ {FinalName} ELSE inst.csets,
     q |-> errq \o ErrIf(overWrite = 1 /\ FinalName \notin inst.csets
                          /\ "delete" \in faults, ErrRange),
     sent |-> IF overWrite = 1 THEN <<Ev("cset:delete", 0)>> ELSE <<>>]

\* the end of deembed_calset: c is what its path did, r the drain at line 1011
DeembedEnds(c, r, sent0, args) ==
    /\ meas' = c.meas
    /\ windows' = c.windows
    /\ winTraces' = c.winTraces
    /\ inst' = [inst EXCEPT !.csets = c.csets, !.chans = c.chans]
    /\ errq' = IF c.done THEN r.q ELSE c.q
    /\ raised' = IF c.done THEN ErrCheckRaised(r) ELSE c.raised
    /\ log' = IF c.done THEN sent0 \o c.sent \o ErrQueries(r.queries)
              ELSE sent0 \o c.sent
    /\ call' = args @@ [op |-> "deembed_calset", reachedEnd |-> c.done,
                        atDrain |-> c.q, scratch |-> c.scratch,
                        csetsBefore |-> inst.csets, errqBefore |-> errq,
                        stage1Ok |-> c.ok1]

\* deembed_calset(baseCalset, finalCalset, portOneS2p, portTwoS2p,
\*                enhancedResponse, portOnePowerComp, portTwoPowerComp, 0, overWrite)
DeembedCalset ==
    /\ pc = "idle"
    /\ \E base \in {CalStd, CalRaw}, enhancedResponse \in {0, 1}, overWrite \in {0, 1},
          failAt \in 0..2 :
          IF enhancedResponse = 1
          THEN \E portOnePowerComp \in {0, 1}, portTwoPowerComp \in {0, 1},
                  faults \in SUBSET EnhancedFaults, sentinel \in ScratchSentinels(base) :
                  LET o == AfterOverWrite(overWrite, faults)
                      c == DeembedEnhanced(base, o.csets, o.q, sentinel,
                                           portOnePowerComp, portTwoPowerComp,
                                           faults, failAt)
                  IN  DeembedEnds(c, DeembedDrain(c.q), o.sent,
                                  [base |-> base, enhancedResponse |-> 1,
                                   overWrite |-> overWrite, faults |-> faults])
          ELSE \E faults \in SUBSET DirectFaults :
                  LET o == AfterOverWrite(overWrite, faults)
                      c == DeembedDirect(base, o.csets, o.q, faults, failAt)
                  IN  DeembedEnds(c, DeembedDrain(c.q), o.sent,
                                  [base |-> base, enhancedResponse |-> 0,
                                   overWrite |-> overWrite, faults |-> faults])
    /\ pc' = "done"
    /\ UNCHANGED <<timeout, calVars, selected, ret>>

\* load_cal_set(calSet, 1, ch)
LoadCalSetCall ==
    /\ pc = "idle"
    /\ \E calSet \in {CalStd, CalRaw, FinalName}, ch \in Channels,
          activateFails \in BOOLEAN, linkOk \in BOOLEAN :
          LET l == LoadCalSet(calSet, ch, inst.csets, errq,
                              ErrIf(activateFails, ErrRange), linkOk)
          IN  /\ errq' = l.q
              /\ raised' = l.raised
              /\ log' = l.sent
              /\ call' = [op |-> "load_cal_set", calSet |-> calSet, ch |-> ch]
    /\ pc' = "done"
    /\ UNCHANGED <<timeout, calVars, windows, winTraces, meas, selected, ret, inst>>

\* Specification SpecDeembed: one deembed_calset or load_cal_set call on an
\* instrument holding any cal sets, with or without a stale error in the queue
\* and with or without a scratch channel left behind by an earlier call
InitDeembed ==
    /\ InitSession
    /\ InitCalIdle
    /\ errq \in {<<>>, <<ErrHeader>>}
    /\ call = [op |-> "none"]
    /\ selected = [c \in Channels \cup {DeembedChannel} |-> NoName]
    /\ \E left \in BOOLEAN :
          /\ windows = IF left THEN {DeembedChannel} ELSE {}
          /\ winTraces = [w \in WindowIds \cup {DeembedChannel} |->
                            IF left /\ w = DeembedChannel THEN {1} ELSE {}]
          /\ meas = [c \in Channels \cup {DeembedChannel} |->
                        IF left /\ c = DeembedChannel
                        THEN <<[name |-> DefaultMeasName, num |-> 1]>> ELSE <<>>]
          /\ inst \in {[InstIdle EXCEPT !.csets = S,
                                         !.chans = IF left THEN {DeembedChannel} ELSE {}] :
                          S \in SUBSET CalSetNames}

NextDeembed == DeembedCalset \/ LoadCalSetCall

SpecDeembed == InitDeembed /\ [][NextDeembed]_vars


IsDeembed == pc = "done" /\ call.op = "deembed_calset"

\* position of the first occurrence of event e in the log, 0 when there is none
PosOf(e) ==
    IF \E i \in 1..Len(log) : log[i] = e
    THEN CHOOSE i \in 1..Len(log) : log[i] = e /\ \A j \in 1..(i - 1) : log[j] # e
    ELSE 0

\* C16: in the direct path (enhancedResponse = 0) the second de-embed command
\* is sent only after the first stage passed its completion barrier and an
\* error check, and never after a first stage the instrument answered with an
\* error.
C16_SecondStageAfterCheckedFirst ==
    (IsDeembed /\ call.enhancedResponse = 0 /\ PosOf(Ev("deembed:stage2", 0)) # 0)
        => LET s1 == PosOf(Ev("deembed:stage1", 0))
               s2 == PosOf(Ev("deembed:stage2", 0))
           IN  /\ s1 # 0 /\ s1 < s2
               /\ \E i \in (s1 + 1)..(s2 - 1) : log[i] = Ev("*opc?", 0)
               /\ \E i \in (s1 + 1)..(s2 - 1) : log[i] = Ev("syst:err?", 0)
               /\ call.stage1Ok

\* C17: every execution of the circuit-simulator path (enhancedResponse = 1)
\* that created or used the scratch channel has sent the command deleting it
\* exactly once when it ends, whether it returns or raises.
C17_ScratchChannelDeletedOnce ==
    (IsDeembed /\ call.enhancedResponse = 1 /\ call.scratch)
        => Count(log, LAMBDA e : e = Ev("channels:delete", DeembedChannel)) = 1

\* C18: an execution of deembed_calset that reaches the end of its compose
\* commands ends with a drain of the error queue; it returns normally exactly
\* when the queue was empty at the drain, and otherwise raises one exception
\* listing the queued errors in order.
C18_EndsWithErrorDrain ==
    (IsDeembed /\ call.reachedEnd)
        => LET n == Len(call.atDrain)
           IN  /\ errq = <<>>
               /\ Len(log) > n
               /\ \A i \in (Len(log) - n)..Len(log) : log[i] = Ev("syst:err?", 0)
               /\ n = 0 <=> raised.kind = "none"
               /\ n >= 1 =>
                     /\ raised.kind = "Exception"
                     /\ Len(raised.payload) = n
                     /\ \A i \in 1..n :
                           raised.payload[i]
                               = RemoveChar(RemoveChar(call.atDrain[i], "+"), "-")

\* both paths reached the drain with an error queued by a compose command
C18_Witness ==
    /\ IsDeembed
    /\ call.reachedEnd
    /\ call.atDrain # <<>>
    /\ call.errqBefore = <<>>
    /\ raised.kind = "Exception"
    /\ call.faults \cap {"attach", "stage2"} # {}

\* a direct path that reached the drain with an empty queue returned normally
C18_WitnessClean ==
    /\ IsDeembed
    /\ call.reachedEnd
    /\ call.atDrain = <<>>
    /\ raised.kind = "none"
    /\ FinalName \in inst.csets

IsLoad == pc = "done" /\ call.op = "load_cal_set"

\* C19: load_cal_set queries the cal-set catalog in the same call before
\* anything else; for a name that is not in it the call raises ValueError
\* without sending the activate, and the activate is sent only for a name
\* that is in it.
C19_ActivateOnlyListedCalSet ==
    IsLoad
        => /\ log # <<>> /\ log[1] = Ev("cset:catalog?", 0)
           /\ call.calSet \notin inst.csets
                 => /\ raised = Raise("ValueError", <<>>)
                    /\ PosOf(Ev("activate", call.ch)) = 0
           /\ PosOf(Ev("activate", call.ch)) # 0
                 => /\ call.calSet \in inst.csets
                    /\ PosOf(Ev("activate", call.ch)) = 2

\* a load of a name the catalog does not hold, among other cal sets, was refused
C19_Witness ==
    /\ IsLoad
    /\ call.calSet \notin inst.csets
    /\ inst.csets # {}
    /\ raised.kind = "ValueError"
    /\ log = <<Ev("cset:catalog?", 0)>>

\* a load of a listed name sent the activate
C19_WitnessListed ==
    /\ IsLoad
    /\ call.calSet \in inst.csets
    /\ PosOf(Ev("activate", call.ch)) = 2
    /\ raised.kind = "none"


----------------------------------------------------------------------------
(* Further claims about the guided calibration run (specification SpecCal) *)

\* C21 (as claimed): with promptUser = 0 run_cal is never waiting for operator
\* input, neither before a step nor after a rejected one, and no input() was
\* ever answered.
C21_NoPromptNeverBlocks ==
    promptUser = 0 =>
        /\ pc \notin {"confirm", "retry_prompt"}
        /\ \A i \in DOMAIN log : log[i].ev \notin {"input_connect", "input_retry"}

\* C22 (as claimed; specification SpecCustomTrace): when the instrument queues
\* an error for a command of a create-trace call (new_mod_trace, new_sa_trace,
\* new_gca_trace, new_gcax_trace, new_smc_trace, new_nf_trace, new_nfx_trace),
\* the call raises and the error is not left in the queue.
C22_TraceErrorRaisesInCall ==
    (pc = "done" /\ call.op \in CustomTraceOps /\ call.own # <<>>) =>
        /\ raised.kind # "none"
        /\ errq = <<>>

\* C23: the name under which run_cal saves is calSetName when the timestamp
\* suffix is off, and otherwise calSetName, '_', the date as 8 digits (year,
\* month, day), '_', and the time as hour, minute, second of two digits each
\* with '-' between them; the digits are those of the clock reading.
C23_SaveNameFormat ==
    (pc = "returned" /\ call.op = "run_cal") =>
        LET base == call.calSetName
            n == Len(base)
            t == call.rawTimestamp
            name == call.saved
            IsNum(a, b, v) ==
                /\ \A i \in (n + a)..(n + b) : IsDigit(name[i])
                /\ DigitsVal(SubSeq(name, n + a, n + b), 0) = v
        IN  IF call.calSetTimestampSuffix = 0
            THEN name = base
            ELSE /\ Len(name) = n + 18
                 /\ SubSeq(name, 1, n) = base
                 /\ name[n + 1] = "_"
                 /\ IsNum(2, 5, t.year)
                 /\ IsNum(6, 7, t.month)
                 /\ IsNum(8, 9, t.day)
                 /\ name[n + 10] = "_"
                 /\ IsNum(11, 12, t.hour)
                 /\ name[n + 13] = "-"
                 /\ IsNum(14, 15, t.minute)
                 /\ name[n + 16] = "-"
                 /\ IsNum(17, 18, t.second)

C23_Witness ==
    /\ pc = "returned"
    /\ call.op = "run_cal"
    /\ call.calSetTimestampSuffix = 1
    /\ call.saved = <<"c", "_", "1", "_", "2", "0", "2", "4", "0", "1", "0", "5",
                      "_", "0", "3", "-", "0", "7", "-", "0", "9">>

\* C24: in every attempt the acquire command is followed at once by the '*opc?'
\* barrier, awaited under the timeout run_cal handed over; 'syst:err?' is sent
\* only after that barrier has returned (never after one that failed), and an
\* attempt is judged accepted or rejected only after the queue was read.
C24_AcquireBarrierDrain ==
    /\ \A i \in DOMAIN log :
          log[i].ev = "acquire" => (i < Len(log) /\ log[i + 1].ev = "*opc?")
    /\ \A j \in DOMAIN log :
          log[j].ev = "syst:err?" => (j > 1 /\ log[j - 1].ev \in {"*opc?", "syst:err?"})
    /\ \A j \in DOMAIN log :
          log[j].ev = "caught_link" => (j > 1 /\ log[j - 1].ev = "*opc?")
    /\ \A j \in DOMAIN log :
          log[j].ev \in {"completed", "caught_instr"} =>
              (j > 1 /\ log[j - 1].ev = "syst:err?")
    /\ call.op = "measure_cal_standard" => call.barrier = TimeoutMs

C24_Witness ==
    /\ call.op = "measure_cal_standard"
    /\ call.attempt = 2
    /\ call.outcome = "caught_instr"
    /\ call.sent = <<Ev("acquire", 1), Ev("*opc?", 0), Ev("syst:err?", 0),
                     Ev("syst:err?", 0), Ev("syst:err?", 0)>>
    /\ call.barrier = TimeoutMs

\* C27 (as claimed): after a measurement attempt, whether its '*opc?' returned
\* or failed with a link timeout, the session timeout is what it was before the
\* attempt, so throughout a run it is the session's original timeout.
C27_TimeoutRestored ==
    /\ call.op = "measure_cal_standard" => timeout = call.before
    /\ timeout = OriginalTimeout

\* C28 (as claimed): the first attempt of a step whose own acquire queued no
\* error and whose barrier returned is accepted, whatever earlier commands of
\* the run left in the queue.
C28_RejectedOnlyForOwnError ==
    (/\ call.op = "measure_cal_standard"
     /\ call.attempt = 1
     /\ call.own = <<>>
     /\ call.linkOk)
    => call.outcome = "completed"


\* Specification SpecCalFair: run_cal, once called, keeps executing: each of
\* its own steps that is ready is eventually taken. The run is recorded, with
\* the bounds of SpecCal, or unrecorded, and then the instrument may reject a
\* step any number of times. Nothing is assumed about the operator's answers
\* to input() or about the instrument's verdicts.
InitCalFair ==
    /\ InitCalCall
    /\ keepLog \in BOOLEAN

SpecCalFair ==
    /\ InitCalFair
    /\ [][NextCal]_vars
    /\ WF_vars(RunCalStart)
    /\ WF_vars(RunCalDescribe)
    /\ WF_vars(RunCalMeasure)
    /\ WF_vars(RunCalSave)

\* the last measurement was one of step s and the instrument accepted it
AcceptedLast(s) ==
    /\ call.op = "measure_cal_standard"
    /\ call.step = s
    /\ call.outcome = "completed"

\* step s is measured again and again
MeasuredForEver(s) == []<>(pc = "measure" /\ step = s)

\* fairness on acceptance: a step that is measured again and again is
\* eventually accepted
AcceptanceFair == \A s \in 1..MaxSteps : MeasuredForEver(s) => <>AcceptedLast(s)

\* the step count was read and every step of the calibration was accepted
AllStepsAccepted ==
    /\ pc \notin {"idle", "raised"}
    /\ \A s \in 1..numSteps : NumCompletedOf(s) >= 1

SaveIssued == Count(log, IsSave) = 1

\* the save command was the last thing run_cal did
SaveSent == call.op = "run_cal"

\* run_cal is waiting in input() for the operator
AtPrompt == pc \in {"confirm", "retry_prompt"}

\* C25 as stated: under fairness on acceptance run_cal terminates with the save
\* command issued.
C25_FairAcceptanceSaves == AcceptanceFair => <>(pc = "returned" /\ SaveSent)

\* C25, amended: under fairness on acceptance run_cal returns, or is ended by
\* the VisaIOError of its 'steps?' or a 'description?' query, or waits in
\* input() for ever. It returns only after the save command, which it sends
\* only after every step was accepted; an exception ends it only at one of the
\* two queries outside the try, with no save. A pass of the while loop leaves
\* the step only when the instrument accepted the measurement (the queue empty
\* and the barrier answered); any other pass leads to the retry prompt of the
\* same step. So a run that measures a step again and again without its ever
\* being accepted never sends the save and never ends.
C25_TerminatesIffAccepted ==
    /\ AcceptanceFair => (<>(pc \in {"returned", "raised"}) \/ <>[]AtPrompt)
    /\ [](pc = "returned" => SaveSent)
    /\ [](SaveSent => pc = "returned" /\ step = numSteps)
    /\ [](keepLog => (SaveSent <=> SaveIssued))
    /\ [](keepLog /\ SaveIssued => AllStepsAccepted)
    /\ [](pc = "raised" =>
            /\ raised.kind = "VisaIOError"
            /\ ~SaveSent
            /\ keepLog => log[Len(log)].ev \in {"steps?", "description?"})
    /\ [][pc = "measure" =>
            IF call'.outcome = "completed"
            THEN /\ call'.found \o call'.own = <<>>
                 /\ call'.linkOk
                 /\ pc' = OnStepSuccess(step, numSteps).pc
                 /\ step' = OnStepSuccess(step, numSteps).step
            ELSE /\ pc' = "retry_prompt"
                 /\ step' = step]_vars
    /\ [][step' # step => (pc = "idle" \/ (pc = "measure" /\ step' = step + 1))]_vars
    /\ \A s \in 1..MaxSteps :
          (MeasuredForEver(s) /\ []~AcceptedLast(s))
             => [](pc \notin {"returned", "raised"} /\ ~SaveSent)

C25_Witness ==
    /\ pc = "returned"
    /\ SaveSent
    /\ SaveIssued
    /\ numSteps = 2
    /\ NumRejectsOf(1) = 1
    /\ NumRejectsOf(2) = 1
    /\ NumLinkFails = 1


----------------------------------------------------------------------------
(* Operations that address a measurement by its number: the marker and limit
   operations, save_s2p, the band-power marker, the compression analysis and
   add_memory_to_all_traces *)

HandleOps ==
    {"marker_activate", "marker_format", "marker_set_x", "marker_get_x",
     "marker_get_y", "configure_limit_segment", "configure_limit_test",
     "get_limit_status", "save_s2p", "configure_sa_band_power_marker",
     "get_sa_marker_band_power", "configure_gca_compression_analysis",
     "get_cw_freq"}

\* the operations that end with wait_for_opc()
BarrierOps == {"configure_gca_compression_analysis", "get_cw_freq"}

\* what get_cw_freq is answered: gca is whether 'system:active:mclass?' names
\* the Gain Compression class, comp whether the analysis is reported enabled
CwFreqReplies == {[gca |-> FALSE, comp |-> FALSE], [gca |-> TRUE, comp |-> FALSE],
                  [gca |-> TRUE, comp |-> TRUE]}

\* the operations that check an argument against a list before any command
ValidatingOps == {"marker_format", "configure_limit_segment", "configure_limit_test"}

\* the two commands of get_meas_number_from_name(measName, ch)
ResolveSent(name, ch) ==
    <<[ev |-> "select", n |-> ch, name |-> name], Ev("mnumber?", ch)>>

\* a command 'calculate<ch>:measure<measNum>:<cmd>'
Use(measNum, cmd) == [ev |-> "use", n |-> measNum, cmd |-> cmd]

\* an operation that addresses the measurement by the number an earlier call
\* left behind
HandleOpSentKept(op, r, measNum, e) == <<Use(ret, "marker:state")>>

\* the commands of operation op, r being those of get_meas_number_from_name (or
\* of the same two lines in the operation itself), measNum what it returned and
\* e what get_cw_freq is answered
HandleOpSent(op, r, measNum, e) ==
    CASE op = "marker_activate" -> r \o <<Use(measNum, "marker:state")>>
      [] op = "marker_format" -> r \o <<Use(measNum, "marker:format")>>
      [] op = "marker_set_x" -> r \o <<Use(measNum, "marker:x")>>
      [] op = "marker_get_x" -> r \o <<Use(measNum, "marker:x?")>>
      [] op = "marker_get_y" -> r \o <<Use(measNum, "marker:y?")>>
      [] op = "configure_limit_segment" ->
            r \o <<Use(measNum, "limit:segment:type"),
                   Use(measNum, "limit:segment:stimulus:start"),
                   Use(measNum, "limit:segment:stimulus:stop"),
                   Use(measNum, "limit:segment:amplitude:start"),
                   Use(measNum, "limit:segment:amplitude:stop")>>
      [] op = "configure_limit_test" ->
            r \o <<Use(measNum, "limit:state"),
                   Use(measNum, "limit:display:state"),
                   Use(measNum, "limit:sound:state")>>
      [] op = "get_limit_status" -> r \o <<Use(measNum, "limit:fail?")>>
      [] op = "save_s2p" -> r \o <<Use(measNum, "data:snp:ports:save")>>
      [] op = "configure_sa_band_power_marker" ->
            r \o <<Use(measNum, "marker:state")>>
            \o r \o <<Use(measNum, "sa:marker:bpower:state")>>
            \o r \o <<Use(measNum, "marker:x"),
                      Use(measNum, "sa:marker:bpower:span")>>
      [] op = "get_sa_marker_band_power" ->
            r \o <<Use(measNum, "sa:marker:bpower:data?")>>
      [] op = "configure_gca_compression_analysis" ->
            r \o <<Use(measNum, "gcmeas:analysis:enable"),
                   Use(measNum, "gcmeas:analysis:discrete:state"),
                   Use(measNum, "gcmeas:analysis:cwfrequency"),
                   Use(measNum, "gcmeas:analysis:xaxis"),
                   Ev("*opc?", 0)>>
      [] op = "get_cw_freq" ->
            r \o <<Ev("mclass?", 0)>>
            \o (IF e.gca THEN <<Use(measNum, "gcmeas:analysis:enable?")>> ELSE <<>>)
            \o (IF e.gca /\ e.comp
                THEN <<Use(measNum, "gcmeas:analysis:cwfrequency?")>> ELSE <<>>)
            \o <<Ev("*opc?", 0)>>

\* how often the operation selects the measurement
NumResolves(op) == IF op = "configure_sa_band_power_marker" THEN 3 ELSE 1

\* a call of one of the operations, before any preset or after one; valid is
\* whether its checked argument is in the list, reply the instrument's answer
\* to 'mnumber?', e what get_cw_freq is answered, linkOk whether the '*opc?' of
\* the closing wait_for_opc() is answered within the timeout
HandleOpCall ==
    /\ pc \in {"idle", "preset"}
    /\ \E op \in HandleOps, name \in MeasNames, ch \in Channels, valid \in BOOLEAN,
          e \in CwFreqReplies, linkOk \in BOOLEAN :
          /\ op \notin ValidatingOps => valid
          /\ op # "get_cw_freq" => ~e.gca
          /\ op \notin BarrierOps => linkOk
          /\ LET s == SelectMeas(name, ch)
             IN  IF ~valid
                 THEN /\ raised' = Raise("ValueError", <<>>)
                      /\ log' = <<>>
                      /\ call' = [op |-> op, name |-> name, ch |-> ch,
                                  prev |-> ret]
                      /\ UNCHANGED <<selected, errq, ret>>
                 ELSE \E reply \in MnumberReplies(name, ch, s.selected) :
                        LET n == ParseInt(reply)
                            errs == IF n.ok
                                    THEN [i \in 1..(NumResolves(op) * Len(s.errs)) |-> ErrHeader]
                                    ELSE s.errs
                        IN  /\ Len(errq) + Len(errs) <= MaxQueue
                            /\ ~n.ok => (linkOk /\ ~e.gca)
                            /\ selected' = s.selected
                            /\ errq' = errq \o errs
                            /\ raised' = IF ~n.ok THEN Raise("ValueError", <<>>)
                                         ELSE WaitForOpc(timeout, 0, linkOk).raised
                            /\ log' = IF n.ok
                                      THEN HandleOpSent(op, ResolveSent(name, ch), n.val, e)
                                      ELSE ResolveSent(name, ch)
                            /\ ret' = IF n.ok THEN n.val ELSE ret
                            /\ call' = [op |-> op, name |-> name, ch |-> ch,
                                        prev |-> ret]
    /\ pc' = IF pc = "idle" THEN "done" ELSE "done_after_preset"
    /\ UNCHANGED <<timeout, calVars, meas, windows, winTraces, inst>>

\* the instrument's reply to 'system:channels:catalog?' and to
\* 'system:measure:catalog? <ch>': the numbers in quotes
NumbersResponse(S) == Quoted(Join(DecAll(Sorted(S))))

\* [int(w) for w in raw.strip('"\n').split(',')]: ok is FALSE when a token is
\* not an integer (int() raises ValueError)
IntsOf(resp) ==
    LET toks == Split(StripChars(resp, {"\"", "\n"}), ",")
    IN  [ok |-> \A i \in 1..Len(toks) : ParseInt(toks[i]).ok,
         val |-> [i \in 1..Len(toks) |-> ParseInt(toks[i]).val]]

\* the channels that hold a measurement, and the numbers of a channel's
\* measurements
ChannelsInUse == {c \in DOMAIN meas : meas[c] # <<>>}
NumsOf(ms) == {ms[i].num : i \in 1..Len(ms)}

\* lines 438-443 for the channels chs: the catalog of each channel is queried
\* and every number in it gets 'calculate:measure<t>:math:memorize'
RECURSIVE MemorizeAll(_)
MemorizeAll(chs) ==
    IF chs = <<>> THEN <<>>
    ELSE LET traces == IntsOf(NumbersResponse(NumsOf(meas[Head(chs)]))).val
         IN  <<Ev("measure:catalog?", Head(chs))>>
             \o [i \in 1..Len(traces) |-> Use(traces[i], "math:memorize")]
             \o MemorizeAll(Tail(chs))

\* lines 453-456 for the traces ts of window w: a barrier and the two display
\* commands per trace; the first barrier fails when linkOk is FALSE
RECURSIVE ShowMemory(_, _, _)
ShowMemory(w, ts, linkOk) ==
    IF ts = <<>> THEN [sent |-> <<>>, raised |-> NoException]
    ELSE IF ~linkOk
    THEN [sent |-> <<Ev("*opc?", 0)>>, raised |-> Raise("VisaIOError", <<>>)]
    ELSE LET rest == ShowMemory(w, Tail(ts), linkOk)
         IN  [sent |-> <<Ev("*opc?", 0), Ev("trace:state on", Head(ts)),
                         Ev("trace:memory:state on", Head(ts))>> \o rest.sent,
              raised |-> rest.raised]

\* lines 449-456 for the windows ws: the catalog of each window is queried and
\* parsed, then its traces are shown with their memory
RECURSIVE ShowWindows(_, _, _)
ShowWindows(ws, sentinel, linkOk) ==
    IF ws = <<>> THEN [sent |-> <<>>, raised |-> NoException]
    ELSE LET w == Head(ws)
             t == IntsOf(CatalogResponse(winTraces[w], sentinel))
             m == ShowMemory(w, t.val, linkOk)
             rest == ShowWindows(Tail(ws), sentinel, linkOk)
         IN  IF ~t.ok
             THEN [sent |-> <<Ev("window:catalog?", w)>>,
                   raised |-> Raise("ValueError", <<>>)]
             ELSE IF m.raised.kind # "none"
             THEN [sent |-> <<Ev("window:catalog?", w)>> \o m.sent, raised |-> m.raised]
             ELSE [sent |-> <<Ev("window:catalog?", w)>> \o m.sent \o rest.sent,
                   raised |-> rest.raised]

\* add_memory_to_all_traces(): the measurement numbers come from the catalogs
\* of the channels, no name is selected and 'mnumber?' is not asked
AddMemoryToAllTraces ==
    /\ pc \in {"idle", "preset"}
    /\ \E sentinel \in EmptySentinels, linkOk \in BOOLEAN :
          LET channels == IntsOf(NumbersResponse(ChannelsInUse))
              wins == IntsOf(CatalogResponse(windows, sentinel))
              shown == ShowWindows(wins.val, sentinel, linkOk)
              first == <<Ev("channels:catalog?", 0)>>
              upTo == first \o MemorizeAll(channels.val) \o <<Ev("display:catalog?", 0)>>
          IN  /\ (windows # {} /\ \A w \in windows : winTraces[w] # {})
                    => sentinel = EmptyLiteral
              /\ (~channels.ok \/ ~wins.ok) => linkOk
              /\ IF ~channels.ok
                 THEN /\ log' = first
                      /\ raised' = Raise("ValueError", <<>>)
                 ELSE IF ~wins.ok
                 THEN /\ log' = upTo
                      /\ raised' = Raise("ValueError", <<>>)
                 ELSE /\ log' = upTo \o shown.sent
                      /\ raised' = shown.raised
              /\ call' = [op |-> "add_memory_to_all_traces", name |-> NoName,
                          ch |-> 0, prev |-> ret]
    /\ pc' = IF pc = "idle" THEN "done" ELSE "done_after_preset"
    /\ UNCHANGED <<errq, timeout, calVars, meas, selected, windows, winTraces,
                   ret, inst>>

\* what the instrument holds after 'system:fpreset' (no measurement and no
\* window) or after '*rst' (its default S11 measurement alone, number 1 of
\* channel 1, in slot 1 of window 1)
PresetState(clearAll) ==
    [meas |-> [c \in DOMAIN meas |->
                 IF clearAll = 0 /\ c = 1
                 THEN <<[name |-> "CH1_S11_1", num |-> 1]>> ELSE <<>>],
     windows |-> IF clearAll = 0 THEN {1} ELSE {},
     winTraces |-> [w \in DOMAIN winTraces |->
                      IF clearAll = 0 /\ w = 1 THEN {1} ELSE {}]]

\* preset(clearAll): '*cls' empties the error queue, the preset command puts
\* the instrument into PresetState, and wait_for_opc raises when the reply to
\* '*opc?' does not come within the timeout (linkOk is FALSE)
Preset ==
    /\ pc \in {"idle", "done"}
    /\ \E clearAll \in {0, 1}, linkOk \in BOOLEAN :
          LET p == PresetState(clearAll)
              w == WaitForOpc(timeout, 0, linkOk)
          IN  /\ errq' = <<>>
              /\ meas' = p.meas
              /\ windows' = p.windows
              /\ winTraces' = p.winTraces
              /\ selected' = [c \in DOMAIN selected |-> NoName]
              /\ inst' = [inst EXCEPT !.border = "norm", !.format = "ascii",
                                      !.chans = {}]
              /\ log' = <<Ev("*cls", 0),
                          Ev(IF clearAll # 0 THEN "system:fpreset" ELSE "*rst", 0),
                          Ev("*opc?", 0)>>
              /\ raised' = w.raised
              /\ timeout' = w.timeout
              /\ call' = [op |-> "preset", clearAll |-> clearAll, linkOk |-> linkOk]
    /\ pc' = "preset"
    /\ UNCHANGED <<calVars, ret>>

\* the set-up that follows a preset: new_sparam_trace into window 1 for a
\* name its channel does not hold yet
SetUpAfterPreset ==
    /\ pc = "preset"
    /\ \E name \in MeasNames, ch \in Channels :
          /\ name \notin NamesOf(meas[ch])
          /\ NewSparamTraceCall(name, 1, ch, EmptyLiteral)
    /\ pc' = "preset"

NextHandle == HandleOpCall \/ AddMemoryToAllTraces \/ Preset \/ SetUpAfterPreset

\* Specification SpecHandle: calls of the operations on an instrument holding
\* any catalogs, before a preset and after a preset and a new set-up
SpecHandle == InitMeas /\ [][NextHandle]_vars

\* the operations that send a command carrying a measurement number
NumberedOps == HandleOps \cup {"add_memory_to_all_traces"}

\* C26 as stated: in every call of an operation that addresses a measurement
\* by its number, each command that carries a measurement number comes after a
\* select of the call's measurement name and a 'mnumber?' query sent in the
\* same call, and carries the number the instrument holds for that name now,
\* whatever number an earlier call got.
C26_HandleResolvedInCall ==
    (pc \in {"done", "done_after_preset"} /\ call.op \in NumberedOps) =>
        \A i \in DOMAIN log :
            log[i].ev = "use" =>
                /\ \E j \in 2..(i - 1) :
                      /\ log[j] = Ev("mnumber?", call.ch)
                      /\ log[j - 1] = [ev |-> "select", n |-> call.ch, name |-> call.name]
                /\ call.name \in NamesOf(meas[call.ch]) =>
                      log[i].n = meas[call.ch][NumOf(meas[call.ch], call.name)].num

\* C26, amended: every number a call uses was obtained from the instrument
\* earlier in the same call. In a call of an operation that takes a
\* measurement name, each command that carries a measurement number comes
\* after a select of that name and a 'mnumber?' query sent in the same call,
\* and carries the number the instrument holds for the name now, whatever
\* number an earlier call got. add_memory_to_all_traces selects no name and
\* sends no 'mnumber?': each number it uses is one the instrument holds now
\* for a measurement of a channel whose catalog the call queried before.
C26_HandleObtainedInCall ==
    (pc \in {"done", "done_after_preset"} /\ call.op \in NumberedOps) =>
        \A i \in DOMAIN log :
            log[i].ev = "use" =>
                IF call.op = "add_memory_to_all_traces"
                THEN /\ \A j \in 1..i : log[j].ev \notin {"select", "mnumber?"}
                     /\ \E c \in ChannelsInUse, j \in 1..(i - 1) :
                           /\ log[j] = Ev("measure:catalog?", c)
                           /\ log[i].n \in NumsOf(meas[c])
                ELSE /\ \E j \in 2..(i - 1) :
                           /\ log[j] = Ev("mnumber?", call.ch)
                           /\ log[j - 1] = [ev |-> "select", n |-> call.ch,
                                            name |-> call.name]
                     /\ call.name \in NamesOf(meas[call.ch]) =>
                           log[i].n = meas[call.ch][NumOf(meas[call.ch], call.name)].num

C26_Witness ==
    /\ pc = "done_after_preset"
    /\ call.op = "configure_sa_band_power_marker"
    /\ raised = NoException
    /\ Len(log) = 10
    /\ call.prev # 0
    /\ call.prev # ret
    /\ ret = meas[call.ch][NumOf(meas[call.ch], call.name)].num
    /\ \A i \in DOMAIN log : log[i].ev = "use" => log[i].n = ret

----------------------------------------------------------------------------
(* The source correction calibration: initiate_source_correction_cal *)

\* largest maxRetries argument
MaxRetries == 2

\* initiate_source_correction_cal's default timeoutMs
SrcCalTimeoutMs == 60000

\* the text the loop looks for in the acquisition status
SucceededText ==
    <<"C", "a", "l", "i", "b", "r", "a", "t", "i", "o", "n", " ", "s", "u",
      "c", "c", "e", "e", "d", "e", "d", ".">>

\* replies to 'sour<ch>:mod:corr:coll:acq:status? "<sourceName>"'
StatusSucceeded ==
    <<"C", "a", "l", "i", "b", "r", "a", "t", "i", "o", "n", " ", "s", "u",
      "c", "c", "e", "e", "d", "e", "d", ".", "\n">>
StatusSucceededDetail ==
    <<"\"", "C", "a", "l", "i", "b", "r", "a", "t", "i", "o", "n", " ", "s",
      "u", "c", "c", "e", "e", "d", "e", "d", ".", " ", "2", " ", "i", "t",
      "e", "r", "a", "t", "i", "o", "n", "s", "\"", "\n">>
StatusFailed ==
    <<"C", "a", "l", "i", "b", "r", "a", "t", "i", "o", "n", " ", "f", "a",
      "i", "l", "e", "d", ".", "\n">>
StatusFailedDetail ==
    <<"\"", "C", "a", "l", "i", "b", "r", "a", "t", "i", "o", "n", " ", "f",
      "a", "i", "l", "e", "d", ".", " ", "T", "o", "l", "e", "r", "a", "n",
      "c", "e", " ", "n", "o", "t", " ", "m", "e", "t", "\"", "\n">>
StatusReplies ==
    {StatusSucceeded, StatusSucceededDetail, StatusFailed, StatusFailedDetail}

\* error records the acquire command can add to the queue; nothing reads them
SrcAcquireErrs == {<<>>, <<ErrRange>>}

\* a loop that stops one pass early
LoopContinuesBelow(successFlag, numRetries, maxRetries) ==
    successFlag = 0 /\ numRetries < maxRetries

\* while successFlag == 0 and numRetries <= maxRetries
LoopContinues(successFlag, numRetries, maxRetries) ==
    successFlag = 0 /\ numRetries <= maxRetries

\* "Calibration succeeded." in calStatus, calStatus being the stripped reply
StatusReportsSuccess(reply) == Contains(Strip(reply), SucceededText)

IsSrcCal == call.op = "initiate_source_correction_cal"

\* initiate_source_correction_cal(retry, maxRetries) is called
SrcCalStart ==
    /\ pc = "idle"
    /\ \E retry \in {0, 1}, maxRetries \in 0..MaxRetries :
          /\ call' = [op |-> "initiate_source_correction_cal", retry |-> retry,
                      maxRetries |-> maxRetries, successFlag |-> 0, numRetries |-> 0]
          /\ pc' = IF retry # 0 THEN "src_loop" ELSE "src_once"
    /\ log' = <<>>
    /\ raised' = NoException
    /\ UNCHANGED <<errq, timeout, calVars, windows, winTraces, meas, selected, ret, inst>>

\* one pass of the while loop: acquire, barrier, status query, verdict
SrcCalPass ==
    /\ pc = "src_loop"
    /\ LoopContinues(call.successFlag, call.numRetries, call.maxRetries)
    /\ \E opcOk \in BOOLEAN, statusOk \in BOOLEAN, reply \in StatusReplies,
          new \in SrcAcquireErrs :
          LET w == WaitForOpc(timeout, SrcCalTimeoutMs, opcOk)
          IN  /\ Len(errq) + Len(new) <= MaxQueue
              /\ errq' = errq \o new
              /\ timeout' = w.timeout
              /\ IF w.raised.kind # "none"
                 THEN /\ log' = log \o <<Ev("acquire", 0), Ev("*opc?", 0)>>
                      /\ raised' = w.raised
                      /\ pc' = "raised"
                      /\ call' = call
                 ELSE IF ~statusOk
                 THEN /\ log' = log \o <<Ev("acquire", 0), Ev("*opc?", 0),
                                         [ev |-> "status?", n |-> 0, reply |-> <<>>]>>
                      /\ raised' = Raise("VisaIOError", <<>>)
                      /\ pc' = "raised"
                      /\ call' = call
                 ELSE /\ log' = log \o <<Ev("acquire", 0), Ev("*opc?", 0),
                                         [ev |-> "status?", n |-> 0, reply |-> reply]>>
                      /\ raised' = NoException
                      /\ pc' = "src_loop"
                      /\ call' = IF StatusReportsSuccess(reply)
                                 THEN [call EXCEPT !.successFlag = 1]
                                 ELSE [call EXCEPT !.numRetries = @ + 1]
    /\ UNCHANGED <<calVars, windows, winTraces, meas, selected, ret, inst>>

\* the while condition is false: the call returns, whatever the last status was
SrcCalReturn ==
    /\ pc = "src_loop"
    /\ ~LoopContinues(call.successFlag, call.numRetries, call.maxRetries)
    /\ pc' = "done"
    /\ UNCHANGED <<log, errq, raised, timeout, calVars, idxVars>>

\* retry = 0: one acquire and its barrier, no status query
SrcCalOnce ==
    /\ pc = "src_once"
    /\ \E opcOk \in BOOLEAN, new \in SrcAcquireErrs :
          LET w == WaitForOpc(timeout, SrcCalTimeoutMs, opcOk)
          IN  /\ errq' = errq \o new
              /\ timeout' = w.timeout
              /\ raised' = w.raised
              /\ pc' = IF w.raised.kind # "none" THEN "raised" ELSE "done"
    /\ log' = log \o <<Ev("acquire", 0), Ev("*opc?", 0)>>
    /\ UNCHANGED <<calVars, idxVars>>

InitSrcCal ==
    /\ InitCommon
    /\ InitCalIdle
    /\ InitIdxIdle
    /\ errq = <<>>

NextSrcCal == SrcCalStart \/ SrcCalPass \/ SrcCalReturn \/ SrcCalOnce

SpecSrcCal == InitSrcCal /\ [][NextSrcCal]_vars

\* Specification SpecSrcCalFair: the call keeps executing once it was made
SpecSrcCalFair ==
    /\ SpecSrcCal
    /\ WF_vars(SrcCalPass)
    /\ WF_vars(SrcCalReturn)
    /\ WF_vars(SrcCalOnce)

IsAcquire(e) == e.ev = "acquire"
SuccessReported(i) ==
    /\ log[i].ev = "status?"
    /\ log[i].reply \in {StatusSucceeded, StatusSucceededDetail}

\* C29: a call with retry enabled ends (it returns or a link failure raises);
\* it sends at most maxRetries + 1 acquire commands, none after the first
\* status that reports success, and when no status reported success and no
\* link failure occurred it returns without an exception after exactly
\* maxRetries + 1 acquires.
C29_RetryBudget ==
    /\ [](IsSrcCal /\ call.retry # 0 => Count(log, IsAcquire) <= call.maxRetries + 1)
    /\ [](IsSrcCal /\ call.retry # 0 =>
            \A i \in DOMAIN log : SuccessReported(i) =>
                \A j \in (i + 1)..Len(log) : log[j].ev # "acquire")
    /\ []((IsSrcCal /\ call.retry # 0 /\ pc = "done"
           /\ \A i \in DOMAIN log : ~SuccessReported(i)) =>
            /\ Count(log, IsAcquire) = call.maxRetries + 1
            /\ raised = NoException)
    /\ (IsSrcCal /\ call.retry # 0) ~> (pc \in {"done", "raised"})

C29_Witness ==
    /\ IsSrcCal
    /\ call.retry = 1
    /\ call.maxRetries = 2
    /\ pc = "done"
    /\ raised = NoException
    /\ Count(log, IsAcquire) = 3
    /\ \A i \in DOMAIN log : ~SuccessReported(i)


----------------------------------------------------------------------------
(* A further claim about deembed_calset (specification SpecDeembed) *)

\* C30 (as claimed): when deembed_calset ends with an exception, the
\* instrument holds the cal sets it held before the call: none was deleted and
\* none was added.
C30_FailureLeavesCatalog ==
    (IsDeembed /\ raised.kind # "none") => inst.csets = call.csetsBefore

====
